------------------------- MODULE ResearchDocuments -------------------------
(***************************************************************************)
(* Research documents and questions about a report: Upload                 *)
(* (app/server/service/finance/document_service.go), ImportURL             *)
(* (web_document.go) and Ask (questions.go).  Uploads of one user run      *)
(* concurrently; the raw bytes are a file named by owner and content hash, *)
(* the rows are unique by the same pair (007_research_viewpoint.sql).  The *)
(* hash of a web page covers its address too, so that no upload has it.    *)
(***************************************************************************)
EXTENDS Naturals, FiniteSets

CONSTANTS
    Owners, Contents,   \* users, and what they upload or import
    WebPages,           \* the contents that are imported from a link
    Uploads,            \* upload requests
    Asks, AskKeys,      \* question requests, and idempotency keys
    MaxQuestions        \* "at most three questions per report"

VARIABLES
    doc,        \* finance_research_documents by <<owner, content>>
    file,       \* the files on disk
    upload,     \* each upload request
    linked,     \* claim drafts: the document each owner's draft refers to
    question,   \* finance_questions: idempotency key -> answered
    asking      \* each question request

doVars == <<doc, file, upload, linked, question, asking>>

NoKey == "no key"
Pair == Owners \X Contents

Init ==
    /\ doc = [p \in Pair |-> "none"]
    /\ file = {} /\ linked = [o \in Owners |-> {}]
    /\ \E f \in [Uploads -> Pair] :
          upload = [u \in Uploads |-> [pc |-> "idle", of |-> f[u]]]
    /\ question = {}
    /\ asking = [a \in Asks |-> [pc |-> "idle", key |-> NoKey]]

----------------------------------------------------------------------------
(* Upload answers with the live document of the same content when there is *)
(* one; a link that is imported is always fetched and stored.              *)
Existing(p) == doc[p] = "live" /\ p[2] \notin WebPages

UploadLookup(u) ==
    /\ upload[u].pc = "idle"
    /\ upload' = [upload EXCEPT ![u].pc =
                     IF Existing(upload[u].of) THEN "answered" ELSE "store"]
    /\ UNCHANGED <<doc, file, linked, question, asking>>

UploadStore(u) ==
    /\ upload[u].pc = "store"
    /\ file' = file \cup {upload[u].of}
    /\ upload' = [upload EXCEPT ![u].pc = "insert"]
    /\ UNCHANGED <<doc, linked, question, asking>>

(* One transaction: the row, its spans and the link of the draft.  Text    *)
(* that cannot be extracted is kept as a failed document without spans.    *)
Cleans(u) == IF upload[u].of[2] \in WebPages THEN file ELSE file \ {upload[u].of}

UploadInsert(u) ==
    LET p == upload[u].of IN
    /\ upload[u].pc = "insert"
    /\ \/ /\ doc[p] = "none"
          /\ doc' = [doc EXCEPT ![p] = "live"]
          /\ \/ linked' = [linked EXCEPT ![p[1]] = {p}]
             \/ UNCHANGED linked
          /\ upload' = [upload EXCEPT ![u].pc = "answered"]
          /\ UNCHANGED file
       \/ \* a unique violation, or the database fails
          /\ file' = Cleans(u)
          /\ upload' = [upload EXCEPT ![u].pc = "refused"]
          /\ UNCHANGED <<doc, linked>>
    /\ UNCHANGED <<question, asking>>

----------------------------------------------------------------------------
(* Ask: the key is looked up, the questions are counted, the answer is     *)
(* inserted; the three are separate statements.                            *)
AskCheck(a, k) ==
    /\ asking[a].pc = "idle"
    /\ asking' = [asking EXCEPT ![a] =
          [pc |-> IF k \in question THEN "answered"
                  ELSE IF Cardinality(question) >= MaxQuestions THEN "refused" ELSE "insert",
           key |-> k]]
    /\ UNCHANGED <<doc, file, upload, linked, question>>

AskInsert(a) ==
    /\ asking[a].pc = "insert"
    /\ IF asking[a].key \in question
         THEN asking' = [asking EXCEPT ![a].pc = "refused"] /\ UNCHANGED question
         ELSE /\ question' = question \cup {asking[a].key}
              /\ asking' = [asking EXCEPT ![a].pc = "answered"]
    /\ UNCHANGED <<doc, file, upload, linked>>

Next ==
    \/ \E u \in Uploads : UploadLookup(u) \/ UploadStore(u) \/ UploadInsert(u)
    \/ \E a \in Asks : (\E k \in AskKeys : AskCheck(a, k)) \/ AskInsert(a)

Spec == Init /\ [][Next]_doVars

----------------------------------------------------------------------------
(* "A repeated content hash returns the existing document": the document   *)
(* of an answered upload stays complete, whatever other uploads of the     *)
(* same content do, so its row never outlives its file.                    *)
DocumentHasItsFile == \A p \in Pair : doc[p] = "live" => p \in file
============================================================================
