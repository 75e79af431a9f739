-------------------------- MODULE StrategyDrafts --------------------------
(***************************************************************************)
(* A strategy draft of the workbench (app/server/service/workbench): the   *)
(* generations that a model writes into it (hub.go), the edits of its      *)
(* owner (drafts.go) and the versions saved from it (versions.go).  A      *)
(* generation runs in a goroutine of its own, without a lock: it reads the *)
(* draft, asks the model, and writes its result if the revision is still   *)
(* the one it knows.                                                       *)
(***************************************************************************)
EXTENDS Integers, FiniteSets, Sequences

CONSTANTS
    Gens,        \* generations
    GenKeys,     \* Idempotency-Keys of their requests
    Rules,       \* rules a draft may hold
    Convertible, \* those the editor can show, a subset of Rules
    MaxRev,      \* bound: revisions of the draft
    MaxSaved     \* bound: versions saved

ASSUME ConvertibleAreRules == Convertible \subseteq Rules

VARIABLES
    sdraft,  \* the row of finance_strategy_drafts
    gen,     \* finance_strategy_generations and the goroutine behind each
    busy,    \* genBusy of the owner
    window,  \* the revision the editor window shows
    saved    \* finance_strategy_versions of the strategy, oldest first

sdVars == <<sdraft, gen, busy, window, saved>>

GenModes == {"generate", "modify", "explain"}
GenDone == {"ready", "failed", "unsupported", "needs_clarification", "canceled"}
Nothing == "nothing"

NoGen == [pc |-> "idle", key |-> "none", status |-> "none", mode |-> "generate",
          base |-> 0, read |-> 0, rule |-> Nothing, out |-> "none"]

(* ImportDraft: a rule that compiles, without an editor state *)
StudioInit ==
    /\ \E r \in Rules : sdraft = [rev |-> 1, seen |-> 0, dsl |-> r, editor |-> Nothing, status |-> "ready"]
    /\ gen = [g \in Gens |-> NoGen]
    /\ busy = 0
    /\ window = 1
    /\ saved = <<>>

----------------------------------------------------------------------------
(* The owner's window *)
GetDraft ==
    /\ window # sdraft.rev
    /\ window' = sdraft.rev
    /\ UNCHANGED <<sdraft, gen, busy, saved>>

(* Every write of a draft asks for the revision its writer knows.  "seen"  *)
(* records what the writer had seen of the draft.                          *)
RevisionIsAnything(rev) == TRUE

RevisionIs(rev) == sdraft.rev = rev

Rewritten(d, seen) == sdraft' = [d EXCEPT !.rev = sdraft.rev + 1, !.seen = seen]

(* PatchDraftV2 with an editor state: complete, or with fields missing. *)
PatchEditor(r) ==
    /\ RevisionIs(window) /\ sdraft.rev < MaxRev
    /\ r \in Convertible
    /\ \/ Rewritten([sdraft EXCEPT !.editor = r, !.dsl = r, !.status = "ready"], window)
       \/ Rewritten([sdraft EXCEPT !.editor = r, !.dsl = Nothing, !.status = "needs_clarification"], window)
    /\ UNCHANGED <<gen, busy, window, saved>>

(* ... and with a rule: the editor state stays what it was. *)
PatchDSL(r) ==
    /\ RevisionIs(window) /\ sdraft.rev < MaxRev
    /\ Rewritten([sdraft EXCEPT !.dsl = r, !.status = "ready"], window)
    /\ UNCHANGED <<gen, busy, window, saved>>

(* SaveStrategy, under the locks of the draft and the strategy: it names   *)
(* the revision and the version its caller knows.                          *)

BaseIsCurrent(base) == base = Len(saved)

SaveStrategy(base) ==
    /\ sdraft.rev = window /\ sdraft.dsl # Nothing
    /\ BaseIsCurrent(base)
    /\ Len(saved) < MaxSaved
    /\ saved' = Append(saved, [base |-> base, rev |-> sdraft.rev, dsl |-> sdraft.dsl])
    /\ UNCHANGED <<sdraft, gen, busy, window>>

----------------------------------------------------------------------------
(* StartGenerate: a known key answers what it made; allowGenerate lets one *)
(* goroutine of an owner run; then the rows, of which the second with one  *)
(* key fails.                                                              *)
KeyKnown(k) == \E g \in Gens : gen[g].status # "none" /\ gen[g].key = k

Admit(g, k, mode, base) ==
    /\ gen[g].pc = "idle" /\ ~KeyKnown(k)
    /\ busy = 0
    /\ busy' = 1
    /\ gen' = [gen EXCEPT ![g] = [NoGen EXCEPT !.pc = "insert", !.key = k, !.mode = mode, !.base = base]]
    /\ UNCHANGED <<sdraft, window, saved>>

InsertGeneration(g) ==
    /\ gen[g].pc = "insert"
    /\ IF KeyKnown(gen[g].key) \/ gen[g].base \notin {0, sdraft.rev}
         THEN /\ gen' = [gen EXCEPT ![g] = NoGen]
              /\ busy' = 0
         ELSE /\ gen' = [gen EXCEPT ![g].pc = "run", ![g].status = "queued"]
              /\ UNCHANGED busy
    /\ UNCHANGED <<sdraft, window, saved>>

(* The goroutine is over: the deferred decGen. *)
Ended(row) == [NoGen EXCEPT !.pc = "over", !.key = row.key, !.status = row.status]

Over(g, row) ==
    /\ gen' = [gen EXCEPT ![g] = Ended(row)]
    /\ busy' = 0

(* runGenerate reads its row, later marks it, whatever it has become since *)
ReadGeneration(g) ==
    /\ gen[g].pc = "run"
    /\ IF gen[g].status = "canceled"
         THEN Over(g, gen[g])
         ELSE gen' = [gen EXCEPT ![g].pc = "mark"] /\ UNCHANGED busy
    /\ UNCHANGED <<sdraft, window, saved>>

MarkGenerating(g) ==
    /\ gen[g].pc = "mark"
    /\ gen' = [gen EXCEPT ![g].pc = gen[g].mode, ![g].status = "generating", ![g].read = sdraft.rev,
          ![g].base = IF gen[g].base = 0 THEN sdraft.rev ELSE gen[g].base,
          ![g].rule = IF sdraft.editor # Nothing THEN sdraft.editor ELSE sdraft.dsl]
    /\ UNCHANGED <<sdraft, busy, window, saved>>

(* The model's answer, and the second mark: it comes before the look for a *)
(* cancellation, and hides it.                                             *)
GenerateLive(g) ==
    /\ gen[g].pc = "generate"
    /\ \/ \E r \in Rules : gen' = [gen EXCEPT ![g].pc = "look", ![g].status = "validating",
                                            ![g].rule = r, ![g].out = "ready"]
       \/ \E out \in {"failed", "unsupported", "needs_clarification"} :
             gen' = [gen EXCEPT ![g].pc = "look", ![g].status = "validating", ![g].rule = Nothing, ![g].out = out]
    /\ UNCHANGED <<sdraft, busy, window, saved>>

LookForGenerationCancel(g) ==
    /\ gen[g].pc = "look"
    /\ IF gen[g].status = "canceled"
         THEN Over(g, gen[g])
         ELSE gen' = [gen EXCEPT ![g].pc = "apply"] /\ UNCHANGED busy
    /\ UNCHANGED <<sdraft, window, saved>>

(* The compare-and-set of a generation's result; a rule that the editor    *)
(* cannot show leaves the editor state, no rule leaves both.               *)
ApplyGenerated(g) ==
    LET r == gen[g].rule IN
    /\ gen[g].pc = "apply" /\ sdraft.rev < MaxRev
    /\ IF RevisionIs(gen[g].base)
         THEN /\ Rewritten([sdraft EXCEPT !.status = gen[g].out,
                    !.dsl = IF r = Nothing THEN sdraft.dsl ELSE r,
                    !.editor = IF r \in Convertible THEN r ELSE sdraft.editor], gen[g].read)
              /\ gen' = [gen EXCEPT ![g].pc = "record"]
         ELSE /\ gen' = [gen EXCEPT ![g].pc = "record", ![g].out = "failed"]
              /\ UNCHANGED sdraft
    /\ UNCHANGED <<busy, window, saved>>

(* runModify: the part of the rule that the text asks to change *)
ModifyEditorState(g) ==
    /\ gen[g].pc = "modify"
    /\ \/ /\ gen[g].rule \in Convertible
          /\ \E r \in Convertible : gen' = [gen EXCEPT ![g].pc = "apply", ![g].rule = r, ![g].out = "ready"]
       \/ gen' = [gen EXCEPT ![g].pc = "record", ![g].out = "failed"]
    /\ UNCHANGED <<sdraft, busy, window, saved>>

(* finishExplain *)
ExplainLive(g) ==
    /\ gen[g].pc = "explain"
    /\ \E out \in {"ready", "failed"} :
          gen' = [gen EXCEPT ![g].pc = "record", ![g].out = out]
    /\ UNCHANGED <<sdraft, busy, window, saved>>

RecordOutcome(g) ==
    /\ gen[g].pc = "record"
    /\ Over(g, [gen[g] EXCEPT !.status = gen[g].out])
    /\ UNCHANGED <<sdraft, window, saved>>

(* CancelGeneration looks at the row, and writes in a later statement: the *)
(* two are taken as one here.                                              *)
CancelGeneration(g) ==
    /\ gen[g].status \notin GenDone \cup {"none"}
    /\ gen' = [gen EXCEPT ![g].status = "canceled"]
    /\ UNCHANGED <<sdraft, busy, window, saved>>

(* The server stops: the goroutines and genBusy go, the rows stay as they  *)
(* are; nothing takes them up again.                                       *)
GenerationsLost ==
    /\ busy = 1
    /\ busy' = 0
    /\ gen' = [g \in Gens |-> IF gen[g].pc = "insert" THEN NoGen
                              ELSE IF gen[g].pc = "idle" THEN gen[g] ELSE Ended(gen[g])]
    /\ UNCHANGED <<sdraft, window, saved>>

StudioNext ==
    \/ GetDraft \/ GenerationsLost
    \/ \E r \in Rules : PatchEditor(r) \/ PatchDSL(r)
    \/ \E base \in 0 .. MaxSaved : SaveStrategy(base)
    \/ \E g \in Gens :
          \/ \E k \in GenKeys, mode \in GenModes, base \in {0, window} : Admit(g, k, mode, base)
          \/ InsertGeneration(g) \/ ReadGeneration(g) \/ MarkGenerating(g)
          \/ GenerateLive(g) \/ LookForGenerationCancel(g) \/ ApplyGenerated(g)
          \/ ModifyEditorState(g) \/ ExplainLive(g) \/ RecordOutcome(g) \/ CancelGeneration(g)

StudioSpec == StudioInit /\ [][StudioNext]_sdVars

----------------------------------------------------------------------------
(* Nothing is overwritten unseen: whoever changes a draft, the window or a *)
(* late model, has seen the revision it replaces; and a version saved into *)
(* a strategy follows the one its author knew.                             *)
NothingLostUnseen ==
    /\ sdraft.seen = sdraft.rev - 1
    /\ \A i \in 1 .. Len(saved) : saved[i].base = i - 1

(* A canceled generation stays canceled (the state machine of the          *)
(* specification; the marks of runGenerate write over it).                 *)
CanceledGenerationStays ==
    [][\A g \in Gens : gen[g].status = "canceled" => gen'[g].status = "canceled"]_sdVars

(* The editor shows the rule that is run ("one representation").  The code *)
(* does not keep it: a patch of the rule leaves the editor's state.        *)
EditorShowsTheRule == sdraft.editor # Nothing /\ sdraft.dsl # Nothing => sdraft.editor = sdraft.dsl
============================================================================
