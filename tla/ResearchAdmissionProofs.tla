---------------------- MODULE ResearchAdmissionProofs ----------------------
(***************************************************************************)
(* CreateResearch keeps its limits, and runs what was confirmed, for any   *)
(* number of users, drafts, keys and calls.  The counts are taken in one   *)
(* statement and used in a later one, the draft is checked in a third: the *)
(* invariant says that what a call found stays true while it holds the     *)
(* row lock that goes with it.                                             *)
(***************************************************************************)
EXTENDS ResearchAdmission, FiniteSetTheorems, TLAPS

\* What the theorems ask of the constants.
Sound == /\ IsFiniteSet(Calls) /\ NoCall \notin Calls
         /\ AdActiveMax \in Nat /\ DailyResearchMax \in Nat

AnyUser  == AdUsers \cup {AbsentRun.user}
AnyKey   == Keys \cup {AbsentRun.key}
AnyDraft == Drafts \cup {AbsentRun.draft}
MaybeCall == Calls \cup {NoCall}

DraftRow == [revision : Nat, scoped : BOOLEAN, confirmed : MaybeCall]
RunRow   == [stored : BOOLEAN, active : BOOLEAN, deleted : BOOLEAN, today : BOOLEAN,
             user : AnyUser, key : AnyKey, draft : AnyDraft, revision : Nat]
CallRow  == [pc : {"new", "lookup", "draft", "active", "scheduler", "insert", "answered", "refused"},
             user : AnyUser, key : AnyKey, draft : AnyDraft, revision : Nat, reply : MaybeCall]

Typed ==
    /\ draft \in [Drafts -> DraftRow] /\ created \in [Calls -> RunRow]
    /\ docRun \in [AdUsers -> MaybeCall] /\ call \in [Calls -> CallRow]
    /\ draftLock \in [Drafts -> MaybeCall] /\ schedLock \in MaybeCall

Asked == \A c \in Calls : call[c].pc # "new" =>
            call[c].user \in AdUsers /\ call[c].key \in Keys /\ call[c].draft \in Drafts /\ call[c].revision > 0

Holds(c) == call[c].pc \in {"active", "scheduler", "insert"}

\* What a call found under its locks.
Locks ==
    /\ \A c \in Calls : Holds(c) => draftLock[call[c].draft] = c /\ Confirmable(c, call[c].draft)
    /\ \A c \in Calls : call[c].pc = "insert" => schedLock = c /\ RoomFor(call[c].user)

\* What a stored run is made of.
MadeOf(r) ==
    /\ call[r].pc = "answered"
    /\ created[r].user = call[r].user /\ created[r].key = call[r].key
    /\ created[r].draft = call[r].draft /\ created[r].revision = call[r].revision
    /\ draft[created[r].draft].confirmed = r
    /\ draft[created[r].draft].revision = created[r].revision
    /\ DraftOwner[created[r].draft] = created[r].user

Made == \A r \in Stored : MadeOf(r)

Answered == \A c \in Calls : call[c].pc = "answered" => call[c].reply \in Calls

IInv == /\ Typed /\ Asked /\ Locks /\ Made
        /\ Answered /\ AnswerIsTheRun /\ ActiveRunHasItsDocument /\ WithinLimits

LEMMA Counts ==
    ASSUME Sound, Typed
    PROVE  /\ IsFiniteSet(ActiveRuns) /\ Cardinality(ActiveRuns) \in Nat
           /\ \A u \in AdUsers : IsFiniteSet(TodayOf(u)) /\ Cardinality(TodayOf(u)) \in Nat
<1>1. IsFiniteSet(ActiveRuns) /\ \A u \in AdUsers : IsFiniteSet(TodayOf(u))
  BY FS_Subset DEF Sound, ActiveRuns, TodayOf, Stored
<1>. QED
  BY <1>1, FS_CardinalityType

LEMMA InitInv == ASSUME Sound PROVE AdmissionInit => IInv
<1> SUFFICES ASSUME AdmissionInit PROVE IInv
  OBVIOUS
<1>1. Typed
  BY DEF AdmissionInit, Typed, AbsentDraft, AbsentRun, NewCall, DraftRow, RunRow, CallRow, AnyUser, AnyKey, AnyDraft, MaybeCall
<1>2. Stored = {} /\ \A c \in Calls : call[c].pc = "new"
  BY DEF AdmissionInit, Stored, AbsentRun, NewCall
<1>3. Asked /\ Locks /\ Made /\ Answered /\ AnswerIsTheRun /\ ActiveRunHasItsDocument
  BY <1>2 DEF Asked, Locks, Holds, Made, Answered, AnswerIsTheRun, ActiveRunHasItsDocument, ActiveOf
<1>4. WithinLimits
  <2>1. ActiveRuns = {} /\ \A u \in AdUsers : TodayOf(u) = {}
    BY <1>2 DEF ActiveRuns, TodayOf
  <2>. QED
    BY <2>1, FS_EmptySet DEF WithinLimits, Sound
<1>. QED
  BY <1>1, <1>3, <1>4 DEF IInv

----------------------------------------------------------------------------

\* Steps that store no run: what counts against a limit becomes less, if anything, and
\* the runs, the calls and the confirmed drafts keep their contents.
RunsStay ==
    /\ created' \in [Calls -> RunRow]
    /\ \A r \in Calls :
          /\ created'[r].stored = created[r].stored
          /\ created'[r].user = created[r].user /\ created'[r].key = created[r].key
          /\ created'[r].draft = created[r].draft /\ created'[r].revision = created[r].revision
          /\ created'[r].active => created[r].active
          /\ created'[r].today => created[r].today
          /\ created[r].deleted => created'[r].deleted

LEMMA FewerRuns ==
    ASSUME Sound, IInv, RunsStay, UNCHANGED docRun
    PROVE  /\ Stored' = Stored /\ WithinLimits' /\ ActiveRunHasItsDocument'
           /\ \A u \in AdUsers : RoomFor(u) => RoomFor(u)'
<1>1. /\ Stored' = Stored /\ ActiveRuns' \subseteq ActiveRuns
      /\ \A u \in AdUsers : TodayOf(u)' \subseteq TodayOf(u) /\ ActiveOf(u)' \subseteq ActiveOf(u)
  BY DEF RunsStay, Stored, ActiveRuns, TodayOf, ActiveOf, IInv, Typed
<1>2. /\ IsFiniteSet(ActiveRuns) /\ Cardinality(ActiveRuns) \in Nat
      /\ \A u \in AdUsers : IsFiniteSet(TodayOf(u)) /\ Cardinality(TodayOf(u)) \in Nat
  BY Counts DEF IInv
<1>3. /\ Cardinality(ActiveRuns') <= Cardinality(ActiveRuns) /\ IsFiniteSet(ActiveRuns')
      /\ \A u \in AdUsers : Cardinality(TodayOf(u)') <= Cardinality(TodayOf(u)) /\ IsFiniteSet(TodayOf(u)')
  BY <1>1, <1>2, FS_Subset
<1>4. Cardinality(ActiveRuns') \in Nat /\ \A u \in AdUsers : Cardinality(TodayOf(u)') \in Nat
  BY <1>3, FS_CardinalityType
<1>5. WithinLimits'
  BY <1>2, <1>3, <1>4 DEF IInv, WithinLimits, Sound
<1>6. \A u \in AdUsers : RoomFor(u) => RoomFor(u)'
  BY <1>2, <1>3, <1>4 DEF RoomFor, Sound
<1>7. ActiveRunHasItsDocument'
  BY <1>1 DEF IInv, ActiveRunHasItsDocument
<1>. QED
  BY <1>1, <1>5, <1>6, <1>7

\* RunEnds, RunDeleted, DayEnds
LEMMA RunsStep ==
    ASSUME Sound, IInv, RunsStay, UNCHANGED <<draft, docRun, call, draftLock, schedLock>>
    PROVE  IInv'
<1>1. /\ Stored' = Stored /\ WithinLimits' /\ ActiveRunHasItsDocument'
      /\ \A u \in AdUsers : RoomFor(u) => RoomFor(u)'
  BY FewerRuns
<1>2. Typed' /\ Asked' /\ Answered'
  BY DEF IInv, Typed, Asked, Answered, RunsStay
<1>3. Locks'
  BY <1>1 DEF IInv, Locks, Holds, Confirmable, Asked
<1>4. Made'
  BY <1>1 DEF IInv, Made, MadeOf, RunsStay, Stored
<1>5. AnswerIsTheRun'
  BY DEF IInv, AnswerIsTheRun, Answered, RunsStay
<1>. QED
  BY <1>1, <1>2, <1>3, <1>4, <1>5 DEF IInv

\* ParseClaim and PatchClaim change a draft that nobody holds and no run was made of.
LEMMA DraftStep ==
    ASSUME Sound, IInv, NEW d \in Drafts, NEW b \in DraftRow, draft' = [draft EXCEPT ![d] = b],
           \/ draft[d].revision = 0
           \/ draftLock[d] = NoCall /\ draft[d].confirmed = NoCall,
           UNCHANGED <<created, docRun, call, draftLock, schedLock>>
    PROVE  IInv'
<1>1. \A e \in Drafts : e # d => draft'[e] = draft[e]
  BY DEF IInv, Typed
<1>2. \A c \in Calls : Holds(c) => call[c].draft \in Drafts \ {d}
  BY DEF IInv, Locks, Confirmable, Holds, Asked, Sound
<1>3. \A r \in Stored : created[r].draft \in Drafts \ {d}
  BY DEF IInv, Made, MadeOf, Asked, Sound, Stored
<1>4. Typed' /\ Asked' /\ Answered' /\ AnswerIsTheRun'
  BY DEF IInv, Typed, Asked, Answered, AnswerIsTheRun
<1>5. ActiveRunHasItsDocument' /\ WithinLimits'
  BY DEF IInv, ActiveRunHasItsDocument, WithinLimits, ActiveOf, ActiveRuns, TodayOf, Stored
<1>6. Locks'
  <2>1. \A u \in AdUsers : RoomFor(u)' <=> RoomFor(u)
    BY DEF RoomFor, ActiveRuns, TodayOf, Stored
  <2>2. \A c \in Calls : call[c].pc = "insert" => schedLock' = c /\ RoomFor(call[c].user)'
    BY <2>1 DEF IInv, Locks, Asked
  <2>3. \A c \in Calls : Holds(c) => draftLock[call[c].draft] = c /\ Confirmable(c, call[c].draft)'
    BY <1>1, <1>2 DEF IInv, Locks, Confirmable
  <2>. QED
    BY <2>2, <2>3 DEF Locks, Holds
<1>7. Made'
  BY <1>1, <1>3 DEF IInv, Made, MadeOf, Stored
<1>. QED
  BY <1>4, <1>5, <1>6, <1>7 DEF IInv

----------------------------------------------------------------------------

\* What is left of a step that stores no run: one call moves on, and gives back or takes
\* no lock of another call.
LEMMA CallStep ==
    ASSUME Sound, IInv, NEW c \in Calls, NEW now \in CallRow,
           call' = [call EXCEPT ![c] = now], UNCHANGED <<draft, created, docRun>>,
           draftLock' \in [Drafts -> MaybeCall], schedLock' \in MaybeCall,
           call[c].pc # "answered",
           now.pc # "new",
           now.user \in AdUsers, now.key \in Keys, now.draft \in Drafts, now.revision > 0,
           \A d \in Drafts : draftLock[d] \in Calls \ {c} => draftLock'[d] = draftLock[d],
           schedLock \in Calls \ {c} => schedLock' = schedLock,
           now.pc \in {"active", "scheduler", "insert"} =>
              /\ draftLock'[now.draft] = c /\ DraftOwner[now.draft] = now.user
              /\ draft[now.draft].revision = now.revision
              /\ draft[now.draft].confirmed = NoCall /\ draft[now.draft].scoped,
           now.pc = "insert" => schedLock' = c /\ RoomFor(now.user),
           now.pc = "answered" =>
              /\ now.reply \in Stored
              /\ created[now.reply].user = now.user /\ created[now.reply].key = now.key
              /\ created[now.reply].draft = now.draft /\ created[now.reply].revision = now.revision
    PROVE  IInv'
<1>1. call'[c] = now /\ \A e \in Calls : e # c => call'[e] = call[e]
  BY DEF IInv, Typed
<1>2. Typed'
  BY DEF IInv, Typed
<1>3. Asked'
  BY <1>1 DEF IInv, Asked
<1>4. ActiveRunHasItsDocument' /\ WithinLimits'
  BY DEF IInv, ActiveRunHasItsDocument, WithinLimits, ActiveOf, ActiveRuns, TodayOf, Stored
<1>5. Made'
  <2>1. \A r \in Stored : r \in Calls /\ r # c
    BY DEF IInv, Made, MadeOf, Stored
  <2>. QED
    BY <1>1, <2>1 DEF IInv, Made, MadeOf, Stored
<1>6. Answered' /\ AnswerIsTheRun'
  <2>1. ASSUME NEW e \in Calls, call'[e].pc = "answered"
        PROVE  /\ call'[e].reply \in Calls /\ created[call'[e].reply].stored
               /\ created[call'[e].reply].user = call'[e].user /\ created[call'[e].reply].key = call'[e].key
               /\ created[call'[e].reply].draft = call'[e].draft
               /\ created[call'[e].reply].revision = call'[e].revision
    <3>1. CASE e = c
      BY <1>1, <2>1, <3>1 DEF Stored
    <3>2. CASE e # c
      BY <1>1, <2>1, <3>2 DEF IInv, Answered, AnswerIsTheRun
    <3>. QED
      BY <3>1, <3>2
  <2>. QED
    BY <2>1 DEF Answered, AnswerIsTheRun
<1>7. Locks'
  <2>1. ASSUME NEW e \in Calls, Holds(e)'
        PROVE  draftLock'[call'[e].draft] = e /\ Confirmable(e, call[e].draft)'
    <3>1. CASE e = c
      BY <1>1, <2>1, <3>1 DEF Holds, Confirmable
    <3>2. CASE e # c
      <4>1. Holds(e) /\ call[e].draft \in Drafts /\ call'[e] = call[e]
        BY <1>1, <2>1, <3>2 DEF Holds, IInv, Asked
      <4>2. draftLock[call[e].draft] = e /\ Confirmable(e, call[e].draft)
        BY <4>1 DEF IInv, Locks
      <4>3. draftLock'[call[e].draft] = e
        BY <3>2, <4>1, <4>2
      <4>. QED
        BY <4>1, <4>2, <4>3 DEF Confirmable
    <3>. QED
      BY <3>1, <3>2
  <2>2. ASSUME NEW e \in Calls, call'[e].pc = "insert"
        PROVE  schedLock' = e /\ RoomFor(call[e].user)'
    <3>1. CASE e = c
      <4>1. call'[e] = now /\ now.pc = "insert" /\ schedLock' = e /\ RoomFor(now.user)
        BY <1>1, <2>2, <3>1
      <4>2. ActiveRuns' = ActiveRuns
        BY DEF ActiveRuns, Stored
      <4>3. TodayOf(call[e].user)' = TodayOf(now.user)
        BY <4>1 DEF TodayOf, Stored
      <4>. QED
        BY <4>1, <4>2, <4>3 DEF RoomFor
    <3>2. CASE e # c
      <4>1. call'[e] = call[e] /\ schedLock = e /\ RoomFor(call[e].user)
        BY <1>1, <2>2, <3>2 DEF IInv, Locks
      <4>2. schedLock' = e
        BY <3>2, <4>1
      <4>. QED
        BY <4>1, <4>2 DEF RoomFor, ActiveRuns, TodayOf, Stored
    <3>. QED
      BY <3>1, <3>2
  <2>. QED
    BY <2>1, <2>2 DEF Locks
<1>. QED
  BY <1>2, <1>3, <1>4, <1>5, <1>6, <1>7 DEF IInv

LEMMA RefusedStep ==
    ASSUME Sound, IInv, NEW c \in Calls, call[c].pc \notin {"new", "answered"}, Refused(c)
    PROVE  IInv'
<1> DEFINE now == [call[c] EXCEPT !.pc = "refused"]
<1>1. now \in CallRow /\ call' = [call EXCEPT ![c] = now] /\ UNCHANGED <<draft, created, docRun>>
  BY DEF Refused, Goes, IInv, Typed, CallRow
<1>2. /\ now.pc = "refused" /\ now.user = call[c].user /\ now.key = call[c].key
      /\ now.draft = call[c].draft /\ now.revision = call[c].revision
  BY DEF IInv, Typed, CallRow
<1>3. now.user \in AdUsers /\ now.key \in Keys /\ now.draft \in Drafts /\ now.revision > 0
  BY <1>2 DEF IInv, Asked
<1>4. draftLock' \in [Drafts -> MaybeCall] /\ schedLock' \in MaybeCall
  BY DEF Refused, Released, IInv, Typed, MaybeCall
<1>5. /\ \A d \in Drafts : draftLock[d] \in Calls \ {c} => draftLock'[d] = draftLock[d]
      /\ schedLock \in Calls \ {c} => schedLock' = schedLock
  BY DEF Refused, Released
<1>. HIDE DEF now
<1>. QED
  BY <1>1, <1>2, <1>3, <1>4, <1>5, CallStep

LEMMA StartedStep ==
    ASSUME Sound, IInv, NEW c \in Calls, Started(c)
    PROVE  IInv'
<1>1. PICK u \in AdUsers, k \in Keys, d \in Drafts, rev \in 1..MaxRevision :
         call' = [call EXCEPT ![c] = [pc |-> "lookup", user |-> u, key |-> k, draft |-> d,
                                      revision |-> rev, reply |-> NoCall]]
  BY DEF Started
<1> DEFINE now == [pc |-> "lookup", user |-> u, key |-> k, draft |-> d, revision |-> rev, reply |-> NoCall]
<1>2. now \in CallRow
  BY DEF CallRow, AnyUser, AnyKey, AnyDraft, MaybeCall
<1>3. /\ now.pc = "lookup" /\ now.user \in AdUsers /\ now.key \in Keys /\ now.draft \in Drafts
      /\ now.revision > 0
  OBVIOUS
<1>4. call' = [call EXCEPT ![c] = now] /\ call[c].pc = "new"
      /\ UNCHANGED <<draft, created, docRun, draftLock, schedLock>>
  BY <1>1 DEF Started
<1>5. draftLock' \in [Drafts -> MaybeCall] /\ schedLock' \in MaybeCall
  BY <1>4 DEF IInv, Typed
<1>. HIDE DEF now
<1>. QED
  BY <1>2, <1>3, <1>4, <1>5, CallStep

LEMMA LookupStep ==
    ASSUME Sound, IInv, NEW c \in Calls, Lookup(c)
    PROVE  IInv'
<1>1. ASSUME NEW r \in Keyed(c), SameRequest(r, c), call' = [call EXCEPT ![c].pc = "answered", ![c].reply = r],
             UNCHANGED <<draft, created, docRun, draftLock, schedLock>>
      PROVE  IInv'
  <2> DEFINE now == [[call[c] EXCEPT !.pc = "answered"] EXCEPT !.reply = r]
  <2>1. call' = [call EXCEPT ![c] = now] /\ now \in CallRow
    BY <1>1 DEF IInv, Typed, CallRow, Keyed, Stored, MaybeCall
  <2>2. /\ now.pc = "answered" /\ now.reply = r /\ now.user = call[c].user /\ now.key = call[c].key
        /\ now.draft = call[c].draft /\ now.revision = call[c].revision
    BY DEF IInv, Typed, CallRow
  <2>3. now.user \in AdUsers /\ now.key \in Keys /\ now.draft \in Drafts /\ now.revision > 0
    BY <2>2 DEF IInv, Asked, Lookup
  <2>4. /\ r \in Stored /\ created[r].user = now.user /\ created[r].key = now.key
        /\ created[r].draft = now.draft /\ created[r].revision = now.revision
    BY <1>1, <2>2 DEF Keyed, SameRequest
  <2>5. draftLock' \in [Drafts -> MaybeCall] /\ schedLock' \in MaybeCall
    BY <1>1 DEF IInv, Typed
  <2>6. call[c].pc = "lookup"
    BY DEF Lookup
  <2>. HIDE DEF now
  <2>. QED
    BY <1>1, <2>1, <2>2, <2>3, <2>4, <2>5, <2>6, CallStep
<1>2. ASSUME Refused(c) PROVE IInv'
  BY <1>2, RefusedStep DEF Lookup
<1>3. ASSUME Goes(c, "draft"), UNCHANGED <<draft, created, docRun, draftLock, schedLock>> PROVE IInv'
  <2> DEFINE now == [call[c] EXCEPT !.pc = "draft"]
  <2>1. call' = [call EXCEPT ![c] = now] /\ now \in CallRow
    BY <1>3 DEF Goes, IInv, Typed, CallRow
  <2>2. /\ now.pc = "draft" /\ now.user = call[c].user /\ now.key = call[c].key
        /\ now.draft = call[c].draft /\ now.revision = call[c].revision
    BY DEF IInv, Typed, CallRow
  <2>3. now.user \in AdUsers /\ now.key \in Keys /\ now.draft \in Drafts /\ now.revision > 0
    BY <2>2 DEF IInv, Asked, Lookup
  <2>5. draftLock' \in [Drafts -> MaybeCall] /\ schedLock' \in MaybeCall
    BY <1>3 DEF IInv, Typed
  <2>6. call[c].pc = "lookup"
    BY DEF Lookup
  <2>. HIDE DEF now
  <2>. QED
    BY <1>3, <2>1, <2>2, <2>3, <2>5, <2>6, CallStep
<1>. QED
  BY <1>1, <1>2, <1>3 DEF Lookup

\* LockDraft, CountActive and LockScheduler, when they find what they need: the locks that
\* go with what they found are theirs.
LEMMA HoldsStep ==
    ASSUME Sound, IInv, NEW c \in Calls, NEW next \in {"active", "scheduler", "insert"},
           call[c].pc \notin {"new", "answered"}, Goes(c, next), UNCHANGED <<draft, created, docRun>>,
           draftLock' \in [Drafts -> MaybeCall], schedLock' \in MaybeCall,
           \A d \in Drafts : draftLock[d] \in Calls \ {c} => draftLock'[d] = draftLock[d],
           schedLock \in Calls \ {c} => schedLock' = schedLock,
           draftLock'[call[c].draft] = c, Confirmable(c, call[c].draft),
           next = "insert" => schedLock' = c /\ RoomFor(call[c].user)
    PROVE  IInv'
<1> DEFINE now == [call[c] EXCEPT !.pc = next]
<1>1. call' = [call EXCEPT ![c] = now] /\ now \in CallRow
  BY DEF Goes, IInv, Typed, CallRow
<1>2. /\ now.pc = next /\ now.user = call[c].user /\ now.key = call[c].key
      /\ now.draft = call[c].draft /\ now.revision = call[c].revision
  BY DEF IInv, Typed, CallRow
<1>3. now.user \in AdUsers /\ now.key \in Keys /\ now.draft \in Drafts /\ now.revision > 0
  BY <1>2 DEF IInv, Asked
<1>4. /\ draftLock'[now.draft] = c /\ DraftOwner[now.draft] = now.user
      /\ draft[now.draft].revision = now.revision
      /\ draft[now.draft].confirmed = NoCall /\ draft[now.draft].scoped
      /\ now.pc = "insert" => schedLock' = c /\ RoomFor(now.user)
  BY <1>2 DEF Confirmable
<1>5. now.pc \notin {"new", "answered"}
  BY <1>2
<1>. HIDE DEF now
<1>. QED
  BY <1>1, <1>3, <1>4, <1>5, CallStep

LEMMA LockStep ==
    ASSUME Sound, IInv, NEW c \in Calls, LockDraft(c) \/ CountActive(c) \/ LockScheduler(c)
    PROVE  IInv'
<1>1. call[c].pc \in {"draft", "active", "scheduler"} /\ call[c].draft \in Drafts
  BY DEF LockDraft, CountActive, LockScheduler, IInv, Asked
<1>2. CASE Refused(c)
  BY <1>1, <1>2, RefusedStep
<1>3. CASE LockDraft(c) /\ ~Refused(c)
  <2>1. /\ draftLock[call[c].draft] = NoCall /\ draftLock' = [draftLock EXCEPT ![call[c].draft] = c]
        /\ Confirmable(c, call[c].draft) /\ Goes(c, "active") /\ UNCHANGED <<draft, created, docRun, schedLock>>
    BY <1>3 DEF LockDraft
  <2>2. /\ draftLock' \in [Drafts -> MaybeCall] /\ schedLock' \in MaybeCall /\ draftLock'[call[c].draft] = c
        /\ \A d \in Drafts : draftLock[d] \in Calls \ {c} => draftLock'[d] = draftLock[d]
    BY <1>1, <2>1 DEF IInv, Typed, MaybeCall, Sound
  <2>. QED
    BY <1>1, <2>1, <2>2, HoldsStep
<1>4. CASE CountActive(c) /\ ~Refused(c)
  <2>1. Goes(c, "scheduler") /\ UNCHANGED <<draft, created, docRun, draftLock, schedLock>> /\ Holds(c)
    BY <1>4 DEF CountActive, Holds
  <2>2. /\ draftLock' \in [Drafts -> MaybeCall] /\ schedLock' \in MaybeCall
        /\ draftLock'[call[c].draft] = c /\ Confirmable(c, call[c].draft)
    BY <2>1 DEF IInv, Typed, Locks
  <2>. QED
    BY <1>1, <2>1, <2>2, HoldsStep
<1>5. CASE LockScheduler(c) /\ ~Refused(c)
  <2>1. /\ schedLock = NoCall /\ schedLock' = c /\ RoomFor(call[c].user) /\ Goes(c, "insert") /\ Holds(c)
        /\ UNCHANGED <<draft, created, docRun, draftLock>>
    BY <1>5 DEF LockScheduler, MayLockScheduler, Holds
  <2>2. /\ draftLock' \in [Drafts -> MaybeCall] /\ schedLock' \in MaybeCall
        /\ draftLock'[call[c].draft] = c /\ Confirmable(c, call[c].draft)
        /\ schedLock \in Calls \ {c} => schedLock' = schedLock
    BY <2>1 DEF IInv, Typed, Locks, MaybeCall, Sound
  <2>. QED
    BY <1>1, <2>1, <2>2, HoldsStep
<1>. QED
  BY <1>2, <1>3, <1>4, <1>5

\* Insert: the run it stores is the only one that counts more than before, and both counts
\* had room while the scheduler's row was held.
LEMMA InsertCounts ==
    ASSUME Sound, IInv, NEW c \in Calls, Insert(c), ~Refused(c)
    PROVE  WithinLimits' /\ ActiveRunHasItsDocument'
<1>1. /\ ~Violates(c) /\ c \notin Stored /\ call[c].user \in AdUsers /\ call[c].pc = "insert"
      /\ RoomFor(call[c].user) /\ docRun' = [docRun EXCEPT ![call[c].user] = c]
      /\ created'[c].stored /\ created'[c].active /\ ~created'[c].deleted /\ created'[c].user = call[c].user
      /\ \A r \in Calls : r # c => created'[r] = created[r]
  BY DEF Insert, IInv, Typed, Asked, Made, MadeOf, Locks
<1>2. Stored' = Stored \cup {c}
  BY <1>1 DEF Stored
<1>3. ActiveRuns' = ActiveRuns \cup {c}
  BY <1>1, <1>2 DEF ActiveRuns, Stored
<1>4. /\ \A u \in AdUsers : TodayOf(u)' \subseteq TodayOf(u) \cup {c}
      /\ \A u \in AdUsers : u # call[c].user => TodayOf(u)' \subseteq TodayOf(u)
  BY <1>1, <1>2 DEF TodayOf, Stored
<1>5. /\ IsFiniteSet(ActiveRuns) /\ Cardinality(ActiveRuns) \in Nat
      /\ \A u \in AdUsers : IsFiniteSet(TodayOf(u)) /\ Cardinality(TodayOf(u)) \in Nat
  BY Counts DEF IInv
<1>6. c \notin ActiveRuns /\ \A u \in AdUsers : c \notin TodayOf(u)
  BY <1>1 DEF ActiveRuns, TodayOf
<1>7. Cardinality(ActiveRuns') <= AdActiveMax
  <2>1. Cardinality(ActiveRuns \cup {c}) = Cardinality(ActiveRuns) + 1
    BY <1>5, <1>6, FS_AddElement
  <2>. QED
    BY <1>1, <1>3, <1>5, <2>1 DEF RoomFor, Sound
<1>8. ASSUME NEW u \in AdUsers PROVE Cardinality(TodayOf(u)') <= DailyResearchMax
  <2>1. CASE u = call[c].user
    <3>1. /\ IsFiniteSet(TodayOf(u) \cup {c})
          /\ Cardinality(TodayOf(u) \cup {c}) = Cardinality(TodayOf(u)) + 1
      BY <1>5, <1>6, FS_AddElement
    <3>2. Cardinality(TodayOf(u)') <= Cardinality(TodayOf(u)) + 1 /\ IsFiniteSet(TodayOf(u)')
      BY <1>4, <3>1, FS_Subset
    <3>3. Cardinality(TodayOf(u)') \in Nat
      BY <3>2, FS_CardinalityType
    <3>. QED
      BY <1>1, <1>5, <2>1, <3>2, <3>3 DEF RoomFor, Sound
  <2>2. CASE u # call[c].user
    <3>1. Cardinality(TodayOf(u)') <= Cardinality(TodayOf(u)) /\ IsFiniteSet(TodayOf(u)')
      BY <1>4, <1>5, <2>2, FS_Subset
    <3>2. Cardinality(TodayOf(u)') \in Nat
      BY <3>1, FS_CardinalityType
    <3>. QED
      BY <1>5, <3>1, <3>2 DEF IInv, WithinLimits, Sound
  <2>. QED
    BY <2>1, <2>2
<1>9. ActiveRunHasItsDocument'
  <2>1. \A r \in Stored : created[r].user = call[c].user => ~created[r].active
    BY <1>1 DEF Violates
  <2>2. ASSUME NEW u \in AdUsers, NEW r \in ActiveOf(u)' PROVE docRun'[u] = r
    <3>1. r \in Stored \cup {c} /\ created'[r].user = u /\ created'[r].active /\ ~created'[r].deleted
      BY <1>2, <2>2 DEF ActiveOf
    <3>2. CASE r = c
      BY <1>1, <3>1, <3>2 DEF IInv, Typed
    <3>3. CASE r # c
      <4>1. created'[r] = created[r] /\ r \in Stored
        BY <1>1, <3>1, <3>3 DEF Stored
      <4>2. u # call[c].user /\ r \in ActiveOf(u)
        BY <2>1, <3>1, <4>1 DEF ActiveOf
      <4>. QED
        BY <1>1, <4>2 DEF IInv, Typed, ActiveRunHasItsDocument
    <3>. QED
      BY <3>2, <3>3
  <2>. QED
    BY <2>2 DEF ActiveRunHasItsDocument
<1>. QED
  BY <1>7, <1>8, <1>9 DEF WithinLimits

LEMMA InsertStep ==
    ASSUME Sound, IInv, NEW c \in Calls, Insert(c)
    PROVE  IInv'
<1>1. CASE Refused(c)
  BY <1>1, RefusedStep DEF Insert
<1>2. CASE ~Refused(c)
  <2>1. /\ call[c].pc = "insert" /\ call[c].user \in AdUsers /\ call[c].key \in Keys
        /\ call[c].draft \in Drafts /\ call[c].revision > 0
        /\ draftLock[call[c].draft] = c /\ schedLock = c /\ Confirmable(c, call[c].draft)
    BY DEF Insert, IInv, Asked, Locks, Holds
  <2> DEFINE now == [[call[c] EXCEPT !.pc = "answered"] EXCEPT !.reply = c]
             kept == [draft[call[c].draft] EXCEPT !.confirmed = c]
             run == [stored |-> TRUE, active |-> TRUE, deleted |-> FALSE, today |-> TRUE,
                     user |-> call[c].user, key |-> call[c].key,
                     draft |-> call[c].draft, revision |-> draft[call[c].draft].revision]
  <2>2. /\ created' = [created EXCEPT ![c] = run] /\ draft' = [draft EXCEPT ![call[c].draft] = kept]
        /\ call' = [call EXCEPT ![c] = now] /\ docRun' = [docRun EXCEPT ![call[c].user] = c] /\ Released(c)
    BY <1>2 DEF Insert, IInv, Typed, CallRow, DraftRow
  <2>3. now \in CallRow /\ kept \in DraftRow /\ run \in RunRow
    <3>1. call[c] \in CallRow /\ draft[call[c].draft] \in DraftRow
      BY <2>1 DEF IInv, Typed
    <3>2. now \in CallRow
      BY <3>1 DEF CallRow, MaybeCall
    <3>3. kept \in DraftRow
      BY <3>1 DEF DraftRow, MaybeCall
    <3>4. run \in RunRow
      BY <2>1, <3>1 DEF DraftRow, RunRow, AnyUser, AnyKey, AnyDraft
    <3>. QED
      BY <3>2, <3>3, <3>4
  <2>4. /\ now.pc = "answered" /\ now.reply = c /\ now.user = call[c].user /\ now.key = call[c].key
        /\ now.draft = call[c].draft /\ now.revision = call[c].revision
    BY DEF IInv, Typed, CallRow
  <2>5. kept.confirmed = c /\ kept.revision = call[c].revision
    BY <2>1 DEF IInv, Typed, DraftRow, Confirmable
  <2>6. /\ run.stored /\ run.user = call[c].user /\ run.key = call[c].key /\ run.draft = call[c].draft
        /\ run.revision = call[c].revision
    BY <2>1 DEF Confirmable
  <2>. HIDE DEF now, kept, run
  <2>7. /\ call'[c] = now /\ created'[c] = run /\ draft'[call[c].draft] = kept
        /\ \A e \in Calls : e # c => call'[e] = call[e] /\ created'[e] = created[e]
        /\ \A d \in Drafts : d # call[c].draft => draft'[d] = draft[d]
    BY <2>1, <2>2 DEF IInv, Typed
  <2>8. Typed'
    BY <2>1, <2>2, <2>3 DEF IInv, Typed, MaybeCall, Released
  <2>9. Asked' /\ Answered'
    BY <2>1, <2>4, <2>7 DEF IInv, Asked, Answered
  <2>10. AnswerIsTheRun'
    <3>1. \A e \in Calls : e # c /\ call[e].pc = "answered" => call[e].reply # c /\ call[e].reply \in Calls
      BY <2>1 DEF IInv, AnswerIsTheRun, Answered, Made, MadeOf, Stored
    <3>. QED
      BY <2>4, <2>6, <2>7, <3>1 DEF IInv, AnswerIsTheRun
  <2>11. Made'
    <3>1. ASSUME NEW r \in Stored' PROVE MadeOf(r)'
      <4>1. CASE r = c
        BY <2>1, <2>4, <2>5, <2>6, <2>7, <4>1 DEF MadeOf, Confirmable
      <4>2. CASE r # c
        <5>1. r \in Stored /\ r \in Calls /\ call'[r] = call[r] /\ created'[r] = created[r] /\ MadeOf(r)
          BY <2>7, <3>1, <4>2 DEF Stored, IInv, Made
        <5>2. created[r].draft \in Drafts /\ created[r].draft # call[c].draft
          BY <2>1, <5>1 DEF MadeOf, Confirmable, IInv, Asked, Sound
        <5>. QED
          BY <2>7, <5>1, <5>2 DEF MadeOf
      <4>. QED
        BY <4>1, <4>2
    <3>. QED
      BY <3>1 DEF Made
  <2>12. Locks'
    <3>1. ASSUME NEW e \in Calls, Holds(e)'
          PROVE  draftLock'[call'[e].draft] = e /\ Confirmable(e, call[e].draft)'
      <4>1. e # c /\ call'[e] = call[e] /\ Holds(e) /\ call[e].draft \in Drafts
        BY <2>4, <2>7, <3>1 DEF Holds, IInv, Asked
      <4>2. draftLock[call[e].draft] = e /\ Confirmable(e, call[e].draft)
        BY <4>1 DEF IInv, Locks
      <4>3. call[e].draft # call[c].draft
        BY <2>1, <4>1, <4>2
      <4>4. draftLock'[call[e].draft] = e
        BY <2>2, <4>1, <4>2 DEF Released
      <4>. QED
        BY <2>7, <4>1, <4>2, <4>3, <4>4 DEF Confirmable
    <3>2. \A e \in Calls : call'[e].pc # "insert"
      BY <2>1, <2>4, <2>7 DEF IInv, Locks
    <3>. QED
      BY <3>1, <3>2 DEF Locks
  <2>13. WithinLimits' /\ ActiveRunHasItsDocument'
    BY <1>2, InsertCounts
  <2>. QED
    BY <2>8, <2>9, <2>10, <2>11, <2>12, <2>13 DEF IInv
<1>. QED
  BY <1>1, <1>2

LEMMA StepInv ==
    ASSUME Sound, IInv, [AdmissionNext]_adVars
    PROVE  IInv'
<1>1. ASSUME NEW d \in Drafts, ParseClaim(d) PROVE IInv'
  <2>1. PICK b \in DraftRow : draft' = [draft EXCEPT ![d] = b]
    BY <1>1 DEF ParseClaim, DraftRow, MaybeCall
  <2>. QED
    BY <1>1, <2>1, DraftStep DEF ParseClaim
<1>2. ASSUME NEW d \in Drafts, PatchClaim(d) PROVE IInv'
  <2>1. PICK scoped \in {draft[d].scoped, TRUE} :
            draft' = [draft EXCEPT ![d] = [[draft[d] EXCEPT !.revision = @ + 1] EXCEPT !.scoped = scoped]]
    BY <1>2 DEF PatchClaim, IInv, Typed, DraftRow
  <2> DEFINE b == [[draft[d] EXCEPT !.revision = @ + 1] EXCEPT !.scoped = scoped]
  <2>2. b \in DraftRow
    <3>1. draft[d] \in DraftRow
      BY DEF IInv, Typed
    <3>2. scoped \in BOOLEAN /\ draft[d].revision + 1 \in Nat
      <4>1. draft[d].scoped \in BOOLEAN /\ TRUE \in BOOLEAN /\ draft[d].revision \in Nat
        BY <3>1 DEF DraftRow
      <4>2. {draft[d].scoped, TRUE} \subseteq BOOLEAN
        BY <4>1, Zenon
      <4>3. scoped \in BOOLEAN
        BY <4>2, Zenon
      <4>. QED
        BY <4>1, <4>3
    <3>3. [draft[d] EXCEPT !.revision = @ + 1] \in DraftRow
      BY <3>1, <3>2 DEF DraftRow
    <3>. QED
      BY <3>2, <3>3 DEF DraftRow
  <2>3. /\ draftLock[d] = NoCall /\ draft[d].confirmed = NoCall
        /\ UNCHANGED <<created, docRun, call, draftLock, schedLock>>
    BY <1>2 DEF PatchClaim, Editable
  <2>. HIDE DEF b
  <2>4. draft' = [draft EXCEPT ![d] = b]
    BY <2>1 DEF b
  <2>. QED
    BY <2>2, <2>3, <2>4, DraftStep
<1>3. ASSUME NEW c \in Calls, Started(c) \/ CreateResearch(c) \/ Abort(c) PROVE IInv'
  BY <1>3, StartedStep, LookupStep, LockStep, InsertStep, RefusedStep DEF CreateResearch, Abort
<1>4. ASSUME NEW r \in Calls, RunEnds(r) \/ RunDeleted(r) PROVE IInv'
  <2>1. RunsStay
    <3>1. created[r] \in RunRow /\ created \in [Calls -> RunRow]
      BY DEF IInv, Typed
    <3>2. [created[r] EXCEPT !.active = FALSE] \in RunRow /\ [created[r] EXCEPT !.deleted = TRUE] \in RunRow
      BY <3>1 DEF RunRow
    <3>3. created' \in [Calls -> RunRow]
      BY <1>4, <3>1, <3>2 DEF RunEnds, RunDeleted
    <3>4. \A e \in Calls : e # r => created'[e] = created[e]
      BY <1>4, <3>1 DEF RunEnds, RunDeleted
    <3>5. /\ created'[r].stored = created[r].stored
          /\ created'[r].user = created[r].user /\ created'[r].key = created[r].key
          /\ created'[r].draft = created[r].draft /\ created'[r].revision = created[r].revision
          /\ created'[r].active => created[r].active
          /\ created'[r].today => created[r].today
          /\ created[r].deleted => created'[r].deleted
      BY <1>4, <3>1 DEF RunEnds, RunDeleted, RunRow
    <3>. QED
      BY <3>3, <3>4, <3>5 DEF RunsStay
  <2>. QED
    BY <1>4, <2>1, RunsStep DEF RunEnds, RunDeleted
<1>5. CASE DayEnds
  <2>1. RunsStay
    BY <1>5 DEF RunsStay, DayEnds, IInv, Typed, RunRow
  <2>. QED
    BY <1>5, <2>1, RunsStep DEF DayEnds
<1>6. CASE UNCHANGED adVars
  <2>1. RunsStay
    BY <1>6 DEF RunsStay, adVars, IInv, Typed
  <2>. QED
    BY <1>6, <2>1, RunsStep DEF adVars
<1>. QED
  BY <1>1, <1>2, <1>3, <1>4, <1>5, <1>6 DEF AdmissionNext

LEMMA Invariance == ASSUME Sound PROVE AdmissionSpec => []IInv
<1>1. AdmissionInit => IInv
  BY InitInv
<1>2. IInv /\ [AdmissionNext]_adVars => IInv'
  BY StepInv
<1>. QED
  BY <1>1, <1>2, PTL DEF AdmissionSpec

\* The limits of CreateResearch: no interleaving of the counts of one call with the inserts
\* of another leaves more active runs, or more runs of a user in a day, than are allowed.
THEOREM Limits == ASSUME Sound PROVE AdmissionSpec => []WithinLimits
<1>1. IInv => WithinLimits
  BY DEF IInv
<1>. QED
  BY <1>1, Invariance, PTL

\* What a user confirmed is what runs: one run per draft, with the owner and the revision
\* that its caller had seen, and no PatchClaim later changes it.
THEOREM Confirmed == ASSUME Sound PROVE AdmissionSpec => []RunsWhatWasConfirmed
<1>1. IInv => RunsWhatWasConfirmed
  BY DEF IInv, Made, MadeOf, RunsWhatWasConfirmed
<1>. QED
  BY <1>1, Invariance, PTL

\* A successful answer of CreateResearch names a stored run of the caller, of his key and of
\* his request, however many calls use the key at once.
THEOREM Answers == ASSUME Sound PROVE AdmissionSpec => []AnswerIsTheRun
<1>1. IInv => AnswerIsTheRun
  BY DEF IInv
<1>. QED
  BY <1>1, Invariance, PTL

\* The shared document of a user's drafts is bound to the run that is active.
THEOREM DocumentIsBound == ASSUME Sound PROVE AdmissionSpec => []ActiveRunHasItsDocument
<1>1. IInv => ActiveRunHasItsDocument
  BY DEF IInv
<1>. QED
  BY <1>1, Invariance, PTL
=============================================================================
