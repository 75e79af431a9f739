--------------------------- MODULE FuturesDrafts ---------------------------
(***************************************************************************)
(* Documents, drafts and runs of one owner of the futures module, their    *)
(* idempotency keys and their deletion: domain_documents.go, the drafts of *)
(* domain.go, CreateRun, DeleteImpact and DeleteRun of domain_runs.go,     *)
(* deletion_idempotency.go and cleanup_db.go.  An operation that writes    *)
(* reads first and writes later in one transaction at READ COMMITTED:      *)
(* another one may commit between its two steps.                           *)
(***************************************************************************)
EXTENDS Integers, FiniteSets

CONSTANTS
    FdCalls,     \* calls of the owner
    FdKeys,      \* Idempotency-Keys
    MaxObjects,  \* bound: documents, drafts and runs ever made
    MaxDraftRev  \* bound: revisions of a draft

ASSUME DraftAssumption == MaxObjects \in Nat /\ MaxDraftRev \in Nat

VARIABLES
    fobj,   \* rows by id: documents, drafts and runs, and the key each was made under
    fkey,   \* futures_idempotency_keys: operation and key -> object answered
    tomb,   \* futures_tombstones
    purge,  \* futures_deletion_jobs: id -> scheduled, purged
    ffile,  \* documents whose file is in the storage directory
    fcall   \* what each call is doing and what it answered

fdVars == <<fobj, fkey, tomb, purge, ffile, fcall>>

Ids == 1 .. MaxObjects
Kinds == {"document", "draft", "run"}
Op == [document |-> "document.create", draft |-> "draft.create", run |-> "run.create"]
Operations == {Op[k] : k \in Kinds} \cup {"draft.parse"}

Absent == [kind |-> "none", under |-> "none", hidden |-> FALSE, ref |-> 0, rev |-> 0, parsed |-> 0]
Quiet == [pc |-> "idle", op |-> "none", key |-> "none", of |-> 0, rev |-> 0, late |-> {}, answer |-> 0]

DraftInit ==
    /\ fobj = [i \in Ids |-> Absent]
    /\ fkey = [o \in Operations |-> [k \in FdKeys |-> 0]]
    /\ tomb = {}
    /\ purge = [i \in Ids |-> "none"]
    /\ ffile = {}
    /\ fcall = [c \in FdCalls |-> Quiet]

----------------------------------------------------------------------------
Exists(i) == i # 0 /\ fobj[i].kind # "none"
Visible(i) == Exists(i) /\ ~fobj[i].hidden
Of(kind, i) == Visible(i) /\ fobj[i].kind = kind
Fresh == {i \in Ids : fobj[i].kind = "none" /\ purge[i] = "none"}

(* Objects hidden when a call starts: it must not answer with one of them. *)
Begin(c, op, k, i, rev) ==
    fcall' = [fcall EXCEPT ![c] = [pc |-> "reading", op |-> op, key |-> k, of |-> i, rev |-> rev,
                                   late |-> tomb, answer |-> 0]]
Answer(c, i) == fcall' = [fcall EXCEPT ![c].pc = "done", ![c].answer = i]
Refuse(c) == fcall' = [fcall EXCEPT ![c].pc = "refused"]

(* replayIdempotency and its three copies, ensureIdempotentObjectVisible:  *)
(* a key whose object has a tombstone answers NotFound, and so does a key  *)
(* older than a day: as old as any key of a document that has expired.  A   *)
(* document that is replayed has its file stored again.                    *)
Known(c) == fkey[fcall[c].op][fcall[c].key]
ReplayIsVisibleAlways(i) == TRUE

ReplayIsVisible(i) == i \notin tomb

Outlived(i) == fobj[i].kind = "document" /\ fobj[i].hidden /\ i \notin tomb

Replay(c) ==
    /\ fcall[c].pc = "reading" /\ Known(c) # 0
    /\ \/ /\ ReplayIsVisible(Known(c)) /\ ~Outlived(Known(c))
          /\ fcall' = [fcall EXCEPT ![c].pc = IF fcall[c].op = "document.create" THEN "store" ELSE "done",
                                    ![c].answer = Known(c)]
       \/ ~(ReplayIsVisible(Known(c)) /\ ~Outlived(Known(c))) /\ Refuse(c)
    /\ UNCHANGED <<fobj, fkey, tomb, purge, ffile>>

----------------------------------------------------------------------------
(* What a call reads before it writes; 0 stands for "no such thing".       *)

(* CreateDocument: the first by id of the owner's documents with the same  *)
(* content, if any.  In this model all uploads of the owner have the same  *)
(* content.  Ids are random: a later document may well be the first.       *)
Documents == {i \in Ids : Of("document", i)}
PriorDocument == IF Documents = {} THEN 0 ELSE CHOOSE i \in Documents : \A j \in Documents : i <= j

Reads(c) ==
    LET i == fcall[c].of IN
    CASE fcall[c].op = "document.create" -> TRUE
      [] fcall[c].op = "draft.create" -> i = 0 \/ Of("document", i)
      [] fcall[c].op = "draft.parse" -> Of("draft", i) /\ fobj[i].rev = fcall[c].rev
      [] fcall[c].op = "run.create" ->
            /\ Of("draft", i) /\ fobj[i].rev = fcall[c].rev /\ fobj[i].parsed = fcall[c].rev
            /\ ~\E r \in Ids : Of("run", r)      \* one active run of an owner

Read(c) ==
    /\ fcall[c].pc = "reading" /\ Known(c) = 0
    /\ IF ~Reads(c) THEN Refuse(c)
       ELSE IF fcall[c].op = "document.create" /\ PriorDocument # 0
         THEN fcall' = [fcall EXCEPT ![c].pc = "store", ![c].answer = PriorDocument]
         ELSE fcall' = [fcall EXCEPT ![c].pc = "write"]
    /\ UNCHANGED <<fobj, fkey, tomb, purge, ffile>>

(* The second insert of a key fails on its primary key.  The file of a     *)
(* document is stored after the commit.                                    *)

KeyTaken(c) == Known(c) # 0

Create(c) ==
    LET kind == CHOOSE k \in Kinds : Op[k] = fcall[c].op
    IN  /\ fcall[c].pc = "write" /\ fcall[c].op # "draft.parse"
        /\ \/ KeyTaken(c) /\ Refuse(c) /\ UNCHANGED <<fobj, fkey>>
           \/ /\ ~KeyTaken(c)
              /\ \E i \in Fresh :
                    /\ fobj' = [fobj EXCEPT ![i] = [kind |-> kind, under |-> fcall[c].key, hidden |-> FALSE,
                                    ref |-> fcall[c].of, rev |-> IF kind = "run" THEN fcall[c].rev ELSE 1,
                                    parsed |-> 0]]
                    /\ fkey' = [fkey EXCEPT ![fcall[c].op][fcall[c].key] = i]
                    /\ fcall' = [fcall EXCEPT ![c].pc = IF kind = "document" THEN "store" ELSE "done",
                                              ![c].answer = i]
        /\ UNCHANGED <<tomb, purge, ffile>>

(* ParseDraft: the UPDATE asks for the revision again, not for deleted_at. *)
Parse(c) ==
    LET i == fcall[c].of IN
    /\ fcall[c].pc = "write" /\ fcall[c].op = "draft.parse"
    /\ IF Exists(i) /\ fobj[i].rev = fcall[c].rev /\ Known(c) = 0
         THEN /\ fobj' = [fobj EXCEPT ![i].parsed = fcall[c].rev]
              /\ fkey' = [fkey EXCEPT !["draft.parse"][fcall[c].key] = i]
              /\ Answer(c, i)
         ELSE Refuse(c) /\ UNCHANGED <<fobj, fkey>>
    /\ UNCHANGED <<tomb, purge, ffile>>

(* storeDocument; a server that stops before it leaves a row without file. *)
Store(c) ==
    /\ fcall[c].pc = "store"
    /\ \/ ffile' = ffile \cup {fcall[c].answer} /\ Answer(c, fcall[c].answer)
       \/ UNCHANGED ffile /\ Refuse(c)
    /\ UNCHANGED <<fobj, fkey, tomb, purge>>

(* PatchDraft *)
PatchDraft(i) ==
    /\ Of("draft", i) /\ fobj[i].rev < MaxDraftRev
    /\ fobj' = [fobj EXCEPT ![i].rev = fobj[i].rev + 1, ![i].parsed = 0]
    /\ UNCHANGED <<fkey, tomb, purge, ffile, fcall>>

----------------------------------------------------------------------------
(* DeleteDraft and DeleteDocument refuse what is referenced; DeleteRun     *)
(* does not ask.  The count and the update are two statements without a    *)
(* lock, so a reference may appear between them: the count is left to the  *)
(* call, the update is here.  The answer kept under the key that made the  *)
(* object is emptied to its id (hideIdempotentObject); the job and the     *)
(* tombstone are written.                                                  *)
Referenced(i) == fobj[i].kind # "run" /\ \E j \in Ids : Visible(j) /\ fobj[j].ref = i

BeginDelete(c, i) ==
    /\ fcall[c].pc = "idle" /\ Visible(i) /\ ~Referenced(i)
    /\ fcall' = [fcall EXCEPT ![c] = [Quiet EXCEPT !.pc = "delete", !.of = i, !.late = tomb]]
    /\ UNCHANGED <<fobj, fkey, tomb, purge, ffile>>

Delete(c) ==
    LET i == fcall[c].of IN
    /\ fcall[c].pc = "delete"
    /\ IF Visible(i)
         THEN /\ fobj' = [fobj EXCEPT ![i].hidden = TRUE]
              /\ tomb' = tomb \cup {i}
              /\ purge' = [purge EXCEPT ![i] = "scheduled"]
              /\ fcall' = [fcall EXCEPT ![c].pc = IF fobj[i].kind = "document" THEN "remove" ELSE "deleted"]
         ELSE Refuse(c) /\ UNCHANGED <<fobj, tomb, purge>>
    /\ UNCHANGED <<fkey, ffile>>

(* removeDocument, after the commit *)
Remove(c) ==
    /\ fcall[c].pc = "remove"
    /\ \E files \in {ffile, ffile \ {fcall[c].of}} : ffile' = files
    /\ fcall' = [fcall EXCEPT ![c].pc = "deleted"]
    /\ UNCHANGED <<fobj, fkey, tomb, purge>>

(* PurgeDueDocuments: seven days after the upload, referenced or not; no   *)
(* tombstone is written.                                                   *)
PurgeDueDocuments(i) ==
    /\ Of("document", i)
    /\ fobj' = [fobj EXCEPT ![i].hidden = TRUE]
    /\ purge' = [purge EXCEPT ![i] = "scheduled"]
    /\ UNCHANGED <<fkey, tomb, ffile, fcall>>

(* PurgeDueDeletionJobs: the rows, the file of a document and the keys     *)
(* that answer with the object go.                                         *)
PurgeDueDeletionJob(i) ==
    /\ purge[i] = "scheduled"
    /\ purge' = [purge EXCEPT ![i] = "purged"]
    /\ fobj' = [fobj EXCEPT ![i] = Absent]
    /\ ffile' = ffile \ {i}
    /\ fkey' = [o \in Operations |-> [k \in FdKeys |-> IF fkey[o][k] = i THEN 0 ELSE fkey[o][k]]]
    /\ UNCHANGED <<tomb, fcall>>

----------------------------------------------------------------------------
Start(c, k) ==
    /\ fcall[c].pc = "idle"
    /\ \/ \E op \in {"document.create", "draft.create"} : Begin(c, op, k, 0, 0)
       \/ \E i \in Ids : Exists(i) /\ fobj[i].kind = "document" /\ Begin(c, "draft.create", k, i, 0)
       \/ \E i \in Ids, op \in {"draft.parse", "run.create"} :
             Exists(i) /\ fobj[i].kind = "draft" /\ Begin(c, op, k, i, fobj[i].rev)
    /\ UNCHANGED <<fobj, fkey, tomb, purge, ffile>>

(* The same caller calls again. *)
Again(c) ==
    /\ fcall[c].pc \in {"done", "refused", "deleted"}
    /\ fcall' = [fcall EXCEPT ![c] = Quiet]
    /\ UNCHANGED <<fobj, fkey, tomb, purge, ffile>>

DraftNext ==
    \/ \E c \in FdCalls :
          \/ \E k \in FdKeys : Start(c, k)
          \/ Replay(c) \/ Read(c) \/ Create(c) \/ Parse(c) \/ Store(c)
          \/ \E i \in Ids : BeginDelete(c, i)
          \/ Delete(c) \/ Remove(c) \/ Again(c)
    \/ \E i \in Ids : PatchDraft(i) \/ PurgeDueDocuments(i) \/ PurgeDueDeletionJob(i)

DraftSpec == DraftInit /\ [][DraftNext]_fdVars

----------------------------------------------------------------------------
(* Once a deletion has been answered, no later call gets the object back,  *)
(* whether by its id, by a replayed key or by the content it had.          *)
HiddenStaysHidden ==
    \A c \in FdCalls : fcall[c].pc = "done" => fcall[c].answer \notin fcall[c].late

(* Two calls with one key never make two objects that are both there, and  *)
(* a draft or a run that is answered was made under the key of the call.   *)
(* (A document need not be: one with the same content will do, and of two  *)
(* that were uploaded at once under different keys either.)                *)
OneObjectPerKey ==
    /\ \A i, j \in Ids :
          /\ Visible(i) /\ Visible(j)
          /\ fobj[i].kind = fobj[j].kind /\ fobj[i].under = fobj[j].under
          => i = j
    /\ \A c \in FdCalls :
          /\ fcall[c].pc = "done" /\ fcall[c].op \in {"draft.create", "run.create"}
          /\ Visible(fcall[c].answer)
          => fobj[fcall[c].answer].under = fcall[c].key

(* What the idempotency keys and the deletions promise together.           *)
KeysAndDeletionsHold == HiddenStaysHidden /\ OneObjectPerKey
============================================================================
