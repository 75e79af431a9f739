-------------------------- MODULE StrategyProofs ---------------------------
(***************************************************************************)
(* The strategy module and its market data, proved for all values of the   *)
(* constants.                                                              *)
(***************************************************************************)
EXTENDS StrategyDrafts, StrategyBacktests, BacktestLedger, StrategyMarket, MarketData,
        TLAPS, FiniteSetTheorems, WellFoundedInduction

----------------------------------------------------------------------------
(***************************************************************************)
(* StrategyDrafts: what a client has not seen is not lost.                 *)
(***************************************************************************)

GenPcs == {"idle", "insert", "run", "mark", "generate", "modify", "explain", "look", "apply", "record", "over"}
GenStatuses == {"none", "queued", "generating", "validating"} \cup GenDone
Outs == {"none"} \cup GenDone
Draws == Rules \cup {Nothing}
Generation == [pc : GenPcs, key : GenKeys \cup {"none"}, status : GenStatuses, mode : GenModes,
               base : Nat, read : Nat, rule : Draws, out : Outs]

StudioTypeOK ==
    /\ sdraft \in [rev : Nat, seen : Int, dsl : Draws, editor : Draws, status : Outs]
    /\ gen \in [Gens -> Generation]
    /\ busy \in {0, 1} /\ window \in Nat
    /\ saved \in Seq([base : Nat, rev : Nat, dsl : Draws])

\* What a generation knows of the draft is never newer than the draft, and the
\* revision it asks for never newer than the one it read.
BaseIsRead ==
    \A g \in Gens :
        /\ gen[g].pc \in {"run", "mark"} => gen[g].base <= sdraft.rev
        /\ gen[g].pc \in {"generate", "modify", "explain", "look", "apply"} =>
              gen[g].base <= gen[g].read /\ gen[g].read <= sdraft.rev

StudioInv == StudioTypeOK /\ BaseIsRead /\ NothingLostUnseen

\* One generation moves: the others stay as they are.
LEMMA GenerationMoves ==
    ASSUME StudioInv, UNCHANGED <<sdraft, saved, window>>, busy' \in {0, 1},
           NEW g \in Gens, NEW row \in Generation, gen' = [gen EXCEPT ![g] = row],
           row.pc \in {"run", "mark"} => row.base <= sdraft.rev,
           row.pc \in {"generate", "modify", "explain", "look", "apply"} =>
              row.base <= row.read /\ row.read <= sdraft.rev
    PROVE  StudioInv'
<1>1. gen' \in [Gens -> Generation] /\ \A h \in Gens : gen'[h] = IF h = g THEN row ELSE gen[h]
  BY DEF StudioInv, StudioTypeOK
<1>2. StudioTypeOK'
  BY <1>1 DEF StudioInv, StudioTypeOK
<1>3. BaseIsRead'
  BY <1>1 DEF StudioInv, BaseIsRead
<1>. QED
  BY <1>2, <1>3 DEF StudioInv, NothingLostUnseen

\* The draft is rewritten: a new revision, by someone who saw the old one.
LEMMA DraftRewritten ==
    ASSUME StudioInv, sdraft' \in [rev : Nat, seen : Int, dsl : Draws, editor : Draws, status : Outs],
           sdraft'.rev = sdraft.rev + 1, sdraft'.seen = sdraft.rev, UNCHANGED <<saved, window, busy>>,
           gen' \in [Gens -> Generation],
           \A g \in Gens : gen'[g] = gen[g] \/ gen'[g].pc = "record"
    PROVE  StudioInv'
<1>1. StudioTypeOK'
  BY DEF StudioInv, StudioTypeOK
<1>2. sdraft.rev \in Nat /\ \A g \in Gens : gen[g].base \in Nat /\ gen[g].read \in Nat
  BY DEF StudioInv, StudioTypeOK, Generation
<1>3. BaseIsRead'
  <2> SUFFICES ASSUME NEW g \in Gens
      PROVE  /\ gen'[g].pc \in {"run", "mark"} => gen'[g].base <= sdraft'.rev
             /\ gen'[g].pc \in {"generate", "modify", "explain", "look", "apply"} =>
                  gen'[g].base <= gen'[g].read /\ gen'[g].read <= sdraft'.rev
    BY DEF BaseIsRead
  <2>1. CASE gen'[g] = gen[g]
    BY <1>2, <2>1 DEF StudioInv, BaseIsRead
  <2>2. CASE gen'[g].pc = "record"
    BY <2>2
  <2>. QED
    BY <2>1, <2>2
<1>4. NothingLostUnseen'
  BY <1>2 DEF StudioInv, NothingLostUnseen
<1>. QED
  BY <1>1, <1>3, <1>4 DEF StudioInv

\* What a rewriting of the draft is.
LEMMA RewrittenFields ==
    ASSUME NEW d \in [rev : Nat, seen : Int, dsl : Draws, editor : Draws, status : Outs], NEW seen \in Int,
           sdraft.rev \in Nat, Rewritten(d, seen)
    PROVE  /\ sdraft' \in [rev : Nat, seen : Int, dsl : Draws, editor : Draws, status : Outs]
           /\ sdraft'.rev = sdraft.rev + 1 /\ sdraft'.seen = seen
<1>1. PICK v \in Nat : v = sdraft.rev + 1
  OBVIOUS
<1>2. sdraft' = [d EXCEPT !.rev = v, !.seen = seen]
  BY <1>1 DEF Rewritten
<1>. QED
  BY <1>1, <1>2

LEMMA DraftFields ==
    ASSUME NEW A, NEW B, NEW C, NEW D, NEW d \in [rev : A, seen : B, dsl : C, editor : C, status : D],
           NEW e \in C, NEW r \in C, NEW s \in D
    PROVE  [d EXCEPT !.editor = e, !.dsl = r, !.status = s] \in [rev : A, seen : B, dsl : C, editor : C, status : D]
  OBVIOUS

\* The rows that the steps of a generation write.
LEMMA GenerationRows ==
    ASSUME NEW A, NEW B, NEW C, NEW M, NEW N, NEW D, NEW O,
           NEW h \in [pc : A, key : B, status : C, mode : M, base : N, read : N, rule : D, out : O],
           NEW a \in A, NEW k \in B, NEW s \in C, NEW m \in M, NEW b \in N, NEW n \in N, NEW d \in D, NEW o \in O
    PROVE  /\ [h EXCEPT !.pc = a, !.key = k, !.mode = m, !.base = b]
                 \in [pc : A, key : B, status : C, mode : M, base : N, read : N, rule : D, out : O]
           /\ [h EXCEPT !.pc = a, !.status = s, !.read = n, !.base = b, !.rule = d]
                 \in [pc : A, key : B, status : C, mode : M, base : N, read : N, rule : D, out : O]
           /\ [h EXCEPT !.pc = a, !.status = s, !.rule = d, !.out = o]
                 \in [pc : A, key : B, status : C, mode : M, base : N, read : N, rule : D, out : O]
           /\ [h EXCEPT !.pc = a, !.rule = d, !.out = o]
                 \in [pc : A, key : B, status : C, mode : M, base : N, read : N, rule : D, out : O]
  OBVIOUS

\* A generation that is over knows nothing of the draft any more.
LEMMA EndedIsOver ==
    ASSUME NEW row, row.key \in GenKeys \cup {"none"}, row.status \in GenStatuses
    PROVE  Ended(row) \in Generation /\ Ended(row).pc = "over"
  BY DEF Ended, NoGen, Generation, GenPcs, GenStatuses, GenModes, Outs, Draws

LEMMA OverKeeps ==
    ASSUME StudioInv, UNCHANGED <<sdraft, saved, window>>, NEW g \in Gens, NEW row,
           row.key = gen[g].key, row.status \in GenStatuses, Over(g, row)
    PROVE  StudioInv'
<1>1. row.key \in GenKeys \cup {"none"}
  BY DEF StudioInv, StudioTypeOK, Generation
<1>2. Ended(row) \in Generation /\ Ended(row).pc = "over"
  BY <1>1, EndedIsOver
<1>. QED
  BY <1>2, GenerationMoves DEF Over

LEMMA GenerationStep ==
    ASSUME StudioInv, NEW g \in Gens,
           \/ \E k \in GenKeys, mode \in GenModes, base \in {0, window} : Admit(g, k, mode, base)
           \/ InsertGeneration(g) \/ ReadGeneration(g) \/ MarkGenerating(g)
           \/ GenerateLive(g) \/ LookForGenerationCancel(g)
           \/ ModifyEditorState(g) \/ ExplainLive(g) \/ RecordOutcome(g) \/ CancelGeneration(g)
    PROVE  StudioInv'
<1> DEFINE h == gen[g]
<1>0. /\ h \in Generation /\ gen \in [Gens -> Generation] /\ sdraft.rev \in Nat /\ window \in Nat
      /\ h.base \in Nat /\ h.read \in Nat /\ sdraft.dsl \in Draws /\ sdraft.editor \in Draws /\ busy \in {0, 1}
      /\ h.rule \in Draws /\ h.out \in Outs /\ h.status \in GenStatuses /\ h.mode \in GenModes
      /\ h.key \in GenKeys \cup {"none"} /\ h.pc \in GenPcs
      /\ h.pc \in {"run", "mark"} => h.base <= sdraft.rev
      /\ h.pc \in {"generate", "modify", "explain", "look", "apply"} => h.base <= h.read /\ h.read <= sdraft.rev
  BY DEF StudioInv, StudioTypeOK, Generation, BaseIsRead
<1>. HIDE DEF h
<1>1. ASSUME NEW k \in GenKeys, NEW mode \in GenModes, NEW base \in {0, window}, Admit(g, k, mode, base)
      PROVE  StudioInv'
  <2> DEFINE row == [NoGen EXCEPT !.pc = "insert", !.key = k, !.mode = mode, !.base = base]
  <2>0. base \in Nat
    BY <1>0
  <2>1. row \in Generation /\ row.pc = "insert"
    <3>1. NoGen \in Generation /\ "insert" \in GenPcs /\ k \in GenKeys \cup {"none"}
      BY DEF NoGen, Generation, GenPcs, GenStatuses, GenModes, Outs, Draws
    <3>2. row \in Generation
      BY <2>0, <3>1, <1>0, GenerationRows DEF Generation
    <3>3. row.pc = "insert"
      BY DEF NoGen
    <3>. QED
      BY <3>2, <3>3
  <2>2. gen' = [gen EXCEPT ![g] = row] /\ UNCHANGED <<sdraft, saved, window>> /\ busy' \in {0, 1}
    BY <1>1 DEF Admit
  <2>. HIDE DEF row
  <2>. QED
    BY <2>1, <2>2, GenerationMoves
<1>2. CASE InsertGeneration(g)
  <2>1. CASE KeyKnown(gen[g].key) \/ gen[g].base \notin {0, sdraft.rev}
    <3>1. NoGen \in Generation /\ NoGen.pc = "idle"
      BY DEF NoGen, Generation, GenPcs, GenStatuses, GenModes, Outs, Draws
    <3>2. gen' = [gen EXCEPT ![g] = NoGen] /\ UNCHANGED <<sdraft, saved, window>> /\ busy' \in {0, 1}
      BY <1>2, <2>1 DEF InsertGeneration
    <3>. QED
      BY <3>1, <3>2, GenerationMoves
  <2>2. CASE ~(KeyKnown(gen[g].key) \/ gen[g].base \notin {0, sdraft.rev})
    <3> DEFINE row == [h EXCEPT !.pc = "run", !.status = "queued"]
    <3>1. gen' = [gen EXCEPT ![g] = row]
      BY <1>0, <1>2, <2>2 DEF InsertGeneration, h
    <3>2. UNCHANGED <<sdraft, saved, window>> /\ busy' \in {0, 1}
      BY <1>0, <1>2, <2>2 DEF InsertGeneration
    <3>3. row \in Generation /\ row.pc = "run" /\ row.base = h.base
      BY <1>0 DEF Generation, GenPcs, GenStatuses
    <3>4. h.base <= sdraft.rev
      BY <1>0, <2>2 DEF h
    <3>. HIDE DEF row
    <3>. QED
      BY <3>1, <3>2, <3>3, <3>4, GenerationMoves
  <2>. QED
    BY <2>1, <2>2
<1>3. CASE ReadGeneration(g)
  <2>1. UNCHANGED <<sdraft, saved, window>>
    BY <1>3 DEF ReadGeneration
  <2>2. CASE gen[g].status = "canceled"
    BY <1>0, <1>3, <2>1, <2>2, OverKeeps DEF ReadGeneration, h
  <2>3. CASE gen[g].status # "canceled"
    <3> DEFINE row == [h EXCEPT !.pc = "mark"]
    <3>1. gen' = [gen EXCEPT ![g] = row] /\ busy' \in {0, 1} /\ h.pc = "run"
      BY <1>0, <1>3, <2>3 DEF ReadGeneration, h
    <3>2. row \in Generation /\ row.pc = "mark" /\ row.base = h.base
      BY <1>0 DEF Generation, GenPcs
    <3>. HIDE DEF row
    <3>. QED
      BY <1>0, <2>1, <3>1, <3>2, GenerationMoves
  <2>. QED
    BY <2>2, <2>3
<1>4. CASE MarkGenerating(g)
  <2>1. PICK b \in Nat : b = IF h.base = 0 THEN sdraft.rev ELSE h.base
    BY <1>0
  <2>2. PICK d \in Draws : d = IF sdraft.editor # Nothing THEN sdraft.editor ELSE sdraft.dsl
    BY <1>0
  <2>3. b <= sdraft.rev /\ UNCHANGED <<sdraft, saved, window>> /\ busy' \in {0, 1}
    BY <1>0, <1>4, <2>1 DEF MarkGenerating, h
  <2> DEFINE row == [h EXCEPT !.pc = h.mode, !.status = "generating", !.read = sdraft.rev, !.base = b, !.rule = d]
  <2>4. gen' = [gen EXCEPT ![g] = row]
    BY <1>0, <1>4, <2>1, <2>2 DEF MarkGenerating, h
  <2>6. h.mode \in GenPcs /\ "generating" \in GenStatuses
    BY <1>0 DEF GenModes, GenPcs, GenStatuses
  <2>7. row \in Generation
    BY <1>0, <2>6, GenerationRows DEF Generation
  <2>8. row.base = b /\ row.read = sdraft.rev /\ row.pc \in GenModes
    BY <1>0 DEF Generation
  <2>. HIDE DEF row
  <2>9. row.base <= row.read /\ row.read <= sdraft.rev /\ row.pc \notin {"run", "mark"}
    BY <1>0, <2>3, <2>8 DEF GenModes
  <2>. QED
    BY <2>3, <2>4, <2>7, <2>9, GenerationMoves
<1>5. CASE GenerateLive(g)
  <2>1. \E r \in Draws, out \in Outs :
            gen' = [gen EXCEPT ![g] = [h EXCEPT !.pc = "look", !.status = "validating", !.rule = r, !.out = out]]
    <3>1. ASSUME NEW r \in Draws, NEW out \in Outs,
                 gen' = [gen EXCEPT ![g].pc = "look", ![g].status = "validating", ![g].rule = r, ![g].out = out]
          PROVE  gen' = [gen EXCEPT ![g] = [h EXCEPT !.pc = "look", !.status = "validating", !.rule = r, !.out = out]]
      BY <1>0, <3>1 DEF h
    <3>2. \/ \E r \in Rules : gen' = [gen EXCEPT ![g].pc = "look", ![g].status = "validating",
                                                  ![g].rule = r, ![g].out = "ready"]
          \/ \E out \in {"failed", "unsupported", "needs_clarification"} :
                gen' = [gen EXCEPT ![g].pc = "look", ![g].status = "validating", ![g].rule = Nothing, ![g].out = out]
      BY <1>5 DEF GenerateLive
    <3>3. Nothing \in Draws /\ Rules \subseteq Draws /\ {"ready", "failed", "unsupported", "needs_clarification"} \subseteq Outs
      BY DEF Draws, Outs, GenDone
    <3>4. \E r \in Draws, out \in Outs :
             gen' = [gen EXCEPT ![g].pc = "look", ![g].status = "validating", ![g].rule = r, ![g].out = out]
      BY <3>2, <3>3
    <3>. QED
      BY <3>1, <3>4
  <2>2. PICK r \in Draws, out \in Outs :
            gen' = [gen EXCEPT ![g] = [h EXCEPT !.pc = "look", !.status = "validating", !.rule = r, !.out = out]]
    BY <2>1
  <2> DEFINE row == [h EXCEPT !.pc = "look", !.status = "validating", !.rule = r, !.out = out]
  <2>4. row \in Generation
    <3>1. "look" \in GenPcs /\ "validating" \in GenStatuses
      BY DEF GenPcs, GenStatuses
    <3>. QED
      BY <1>0, <3>1, GenerationRows DEF Generation
  <2>5. UNCHANGED <<sdraft, saved, window>> /\ busy' \in {0, 1} /\ h.pc = "generate"
    BY <1>0, <1>5 DEF GenerateLive, h
  <2>6. gen' = [gen EXCEPT ![g] = row] /\ row.pc = "look" /\ row.base = h.base /\ row.read = h.read
    BY <1>0, <2>2 DEF Generation
  <2>. HIDE DEF row
  <2>. QED
    BY <1>0, <2>4, <2>5, <2>6, GenerationMoves
<1>6. CASE LookForGenerationCancel(g)
  <2>1. UNCHANGED <<sdraft, saved, window>>
    BY <1>6 DEF LookForGenerationCancel
  <2>2. CASE gen[g].status = "canceled"
    BY <1>0, <1>6, <2>1, <2>2, OverKeeps DEF LookForGenerationCancel, h
  <2>3. CASE gen[g].status # "canceled"
    <3> DEFINE row == [h EXCEPT !.pc = "apply"]
    <3>1. gen' = [gen EXCEPT ![g] = row] /\ busy' \in {0, 1} /\ h.pc = "look"
      BY <1>0, <1>6, <2>3 DEF LookForGenerationCancel, h
    <3>2. row \in Generation /\ row.pc = "apply" /\ row.base = h.base /\ row.read = h.read
      BY <1>0 DEF Generation, GenPcs
    <3>. HIDE DEF row
    <3>. QED
      BY <1>0, <2>1, <3>1, <3>2, GenerationMoves
  <2>. QED
    BY <2>2, <2>3
<1>7. CASE ModifyEditorState(g)
  <2>1. \E pc \in {"apply", "record"}, r \in Draws, out \in Outs :
            gen' = [gen EXCEPT ![g] = [h EXCEPT !.pc = pc, !.rule = r, !.out = out]]
    <3>1. CASE \E r \in Convertible : /\ gen[g].rule \in Convertible
              /\ gen' = [gen EXCEPT ![g].pc = "apply", ![g].rule = r, ![g].out = "ready"]
      <4>1. PICK r \in Draws : gen' = [gen EXCEPT ![g].pc = "apply", ![g].rule = r, ![g].out = "ready"]
        BY <3>1, ConvertibleAreRules DEF Draws
      <4>2. gen' = [gen EXCEPT ![g] = [h EXCEPT !.pc = "apply", !.rule = r, !.out = "ready"]]
        BY <1>0, <4>1 DEF h
      <4>. QED
        BY <4>2 DEF Outs, GenDone
    <3>2. CASE gen' = [gen EXCEPT ![g].pc = "record", ![g].out = "failed"]
      <4>1. [h EXCEPT !.pc = "record", !.out = "failed"] = [h EXCEPT !.pc = "record", !.rule = h.rule, !.out = "failed"]
        BY <1>0 DEF Generation
      <4>2. gen' = [gen EXCEPT ![g] = [h EXCEPT !.pc = "record", !.out = "failed"]]
        BY <1>0, <3>2 DEF h
      <4>. QED
        BY <1>0, <4>1, <4>2 DEF Outs, GenDone
    <3>. QED
      BY <1>7, <3>1, <3>2 DEF ModifyEditorState
  <2>2. PICK pc \in {"apply", "record"}, r \in Draws, out \in Outs :
            gen' = [gen EXCEPT ![g] = [h EXCEPT !.pc = pc, !.rule = r, !.out = out]]
    BY <2>1
  <2> DEFINE row == [h EXCEPT !.pc = pc, !.rule = r, !.out = out]
  <2>4. row \in Generation
    <3>1. pc \in GenPcs
      BY DEF GenPcs
    <3>. QED
      BY <1>0, <3>1, GenerationRows DEF Generation
  <2>5. UNCHANGED <<sdraft, saved, window>> /\ busy' \in {0, 1} /\ h.pc = "modify"
    BY <1>0, <1>7 DEF ModifyEditorState, h
  <2>6. gen' = [gen EXCEPT ![g] = row] /\ row.pc = pc /\ row.base = h.base /\ row.read = h.read
    BY <1>0, <2>2 DEF Generation
  <2>. HIDE DEF row
  <2>. QED
    BY <1>0, <2>4, <2>5, <2>6, GenerationMoves
<1>8. CASE ExplainLive(g)
  <2>1. PICK out \in {"ready", "failed"} : gen' = [gen EXCEPT ![g] = [h EXCEPT !.pc = "record", !.out = out]]
    BY <1>0, <1>8 DEF ExplainLive, h
  <2> DEFINE row == [h EXCEPT !.pc = "record", !.out = out]
  <2>2. row \in Generation /\ row.pc = "record"
    BY <1>0 DEF Generation, GenPcs, Outs, GenDone
  <2>3. gen' = [gen EXCEPT ![g] = row] /\ UNCHANGED <<sdraft, saved, window>> /\ busy' \in {0, 1}
    BY <1>0, <1>8, <2>1 DEF ExplainLive
  <2>. HIDE DEF row
  <2>. QED
    BY <2>2, <2>3, GenerationMoves
<1>9. CASE RecordOutcome(g)
  <2> DEFINE row == [h EXCEPT !.status = h.out]
  <2>1. row.key = h.key /\ row.status = h.out /\ h.out \in GenStatuses
    BY <1>0 DEF Generation, Outs, GenStatuses
  <2>2. Over(g, row) /\ UNCHANGED <<sdraft, saved, window>>
    BY <1>9 DEF RecordOutcome, h
  <2>. HIDE DEF row
  <2>. QED
    BY <2>1, <2>2, OverKeeps DEF h
<1>10. CASE CancelGeneration(g)
  <2> DEFINE row == [h EXCEPT !.status = "canceled"]
  <2>1. gen' = [gen EXCEPT ![g] = row] /\ UNCHANGED <<sdraft, saved, window>> /\ busy' \in {0, 1}
    BY <1>0, <1>10 DEF CancelGeneration, h
  <2>2. row \in Generation /\ row.pc = h.pc /\ row.base = h.base /\ row.read = h.read
    BY <1>0 DEF Generation, GenStatuses, GenDone
  <2>. HIDE DEF row
  <2>. QED
    BY <1>0, <2>1, <2>2, GenerationMoves
<1>. QED
  BY <1>1, <1>2, <1>3, <1>4, <1>5, <1>6, <1>7, <1>8, <1>9, <1>10

LEMMA ApplyKeeps == ASSUME StudioInv, NEW g \in Gens, ApplyGenerated(g) PROVE StudioInv'
<1>0. /\ gen \in [Gens -> Generation] /\ sdraft.rev \in Nat /\ gen[g].pc = "apply"
      /\ sdraft \in [rev : Nat, seen : Int, dsl : Draws, editor : Draws, status : Outs]
      /\ gen[g].base \in Nat /\ gen[g].read \in Nat /\ gen[g].rule \in Draws /\ gen[g].out \in Outs
      /\ gen[g].base <= gen[g].read /\ gen[g].read <= sdraft.rev /\ sdraft.dsl \in Draws /\ sdraft.editor \in Draws
      /\ gen[g] \in Generation
  BY DEF ApplyGenerated, StudioInv, StudioTypeOK, Generation, BaseIsRead
<1>1. CASE RevisionIs(gen[g].base)
  <2>1. gen[g].read = sdraft.rev
    BY <1>0, <1>1 DEF RevisionIs
  <2>2. PICK e \in Draws : e = IF gen[g].rule \in Convertible THEN gen[g].rule ELSE sdraft.editor
    BY <1>0
  <2>3. PICK r \in Draws : r = IF gen[g].rule = Nothing THEN sdraft.dsl ELSE gen[g].rule
    BY <1>0
  <2>4. PICK s \in Outs : s = gen[g].out
    BY <1>0
  <2> DEFINE d == [sdraft EXCEPT !.status = s, !.dsl = r, !.editor = e]
  <2>5. d \in [rev : Nat, seen : Int, dsl : Draws, editor : Draws, status : Outs]
    BY <1>0
  <2>6. Rewritten(d, sdraft.rev)
    BY <1>1, <2>1, <2>2, <2>3, <2>4 DEF ApplyGenerated
  <2>. HIDE DEF d
  <2>7. /\ sdraft' \in [rev : Nat, seen : Int, dsl : Draws, editor : Draws, status : Outs]
        /\ sdraft'.rev = sdraft.rev + 1 /\ sdraft'.seen = sdraft.rev
    BY <1>0, <2>5, <2>6, RewrittenFields
  <2>8. gen' = [gen EXCEPT ![g].pc = "record"] /\ UNCHANGED <<saved, window, busy>>
    BY <1>1 DEF ApplyGenerated
  <2>9. gen' \in [Gens -> Generation] /\ \A z \in Gens : gen'[z] = gen[z] \/ gen'[z].pc = "record"
    BY <1>0, <2>8 DEF Generation, GenPcs
  <2>. QED
    BY <2>7, <2>8, <2>9, DraftRewritten
<1>2. CASE ~RevisionIs(gen[g].base)
  <2> DEFINE row == [gen[g] EXCEPT !.pc = "record", !.out = "failed"]
  <2>1. row \in Generation /\ row.pc = "record"
    BY <1>0 DEF Generation, GenPcs, Outs, GenDone
  <2>2. gen' = [gen EXCEPT ![g] = row] /\ UNCHANGED <<sdraft, saved, window>> /\ busy' \in {0, 1}
    BY <1>0, <1>2 DEF ApplyGenerated, StudioInv, StudioTypeOK
  <2>. HIDE DEF row
  <2>. QED
    BY <2>1, <2>2, GenerationMoves
<1>. QED
  BY <1>1, <1>2

LEMMA PatchRuleKeeps == ASSUME StudioInv, NEW r \in Rules, PatchEditor(r) \/ PatchDSL(r) PROVE StudioInv'
<1>0. /\ sdraft \in [rev : Nat, seen : Int, dsl : Draws, editor : Draws, status : Outs]
      /\ sdraft.rev \in Nat /\ window = sdraft.rev /\ UNCHANGED <<gen, saved, window, busy>>
      /\ gen \in [Gens -> Generation]
      /\ {r, Nothing} \subseteq Draws /\ {"ready", "needs_clarification"} \subseteq Outs
  BY DEF PatchEditor, PatchDSL, RevisionIs, StudioInv, StudioTypeOK, Draws, Outs, GenDone
<1>1. \E d \in [rev : Nat, seen : Int, dsl : Draws, editor : Draws, status : Outs] : Rewritten(d, sdraft.rev)
  <2>1. CASE Rewritten([sdraft EXCEPT !.editor = r, !.dsl = r, !.status = "ready"], window)
    <3>1. [sdraft EXCEPT !.editor = r, !.dsl = r, !.status = "ready"]
            \in [rev : Nat, seen : Int, dsl : Draws, editor : Draws, status : Outs]
      BY <1>0, DraftFields
    <3>. QED
      BY <1>0, <2>1, <3>1
  <2>2. CASE Rewritten([sdraft EXCEPT !.editor = r, !.dsl = Nothing, !.status = "needs_clarification"], window)
    <3>1. [sdraft EXCEPT !.editor = r, !.dsl = Nothing, !.status = "needs_clarification"]
            \in [rev : Nat, seen : Int, dsl : Draws, editor : Draws, status : Outs]
      BY <1>0, DraftFields
    <3>. QED
      BY <1>0, <2>2, <3>1
  <2>3. CASE Rewritten([sdraft EXCEPT !.dsl = r, !.status = "ready"], window)
    <3>1. [sdraft EXCEPT !.dsl = r, !.status = "ready"]
            \in [rev : Nat, seen : Int, dsl : Draws, editor : Draws, status : Outs]
      BY <1>0
    <3>. QED
      BY <1>0, <2>3, <3>1
  <2>. QED
    BY <2>1, <2>2, <2>3 DEF PatchEditor, PatchDSL
<1>2. /\ sdraft' \in [rev : Nat, seen : Int, dsl : Draws, editor : Draws, status : Outs]
      /\ sdraft'.rev = sdraft.rev + 1 /\ sdraft'.seen = sdraft.rev
  BY <1>0, <1>1, RewrittenFields
<1>. QED
  BY <1>0, <1>2, DraftRewritten

LEMMA StudioStep == ASSUME StudioInv, [StudioNext]_sdVars PROVE StudioInv'
<1>0. StudioTypeOK /\ BaseIsRead /\ NothingLostUnseen
  BY DEF StudioInv
<1>1. CASE UNCHANGED sdVars
  BY <1>0, <1>1 DEF sdVars, StudioInv, StudioTypeOK, BaseIsRead, NothingLostUnseen
<1>2. CASE GetDraft
  BY <1>0, <1>2 DEF GetDraft, StudioInv, StudioTypeOK, BaseIsRead, NothingLostUnseen
<1>3. CASE GenerationsLost
  <2>1. \A g \in Gens : /\ gen[g] \in Generation /\ gen[g].key \in GenKeys \cup {"none"}
                        /\ gen[g].status \in GenStatuses
    BY <1>0 DEF StudioTypeOK, Generation
  <2>2. NoGen \in Generation /\ NoGen.pc = "idle"
    BY DEF NoGen, Generation, GenPcs, GenStatuses, GenModes, Outs, Draws
  <2>3. \A g \in Gens : gen'[g] \in Generation /\ gen'[g].pc \in {"idle", "over"}
    BY <1>3, <2>1, <2>2, EndedIsOver DEF GenerationsLost
  <2>4. gen' \in [Gens -> Generation]
    BY <1>3, <2>3 DEF GenerationsLost
  <2>. QED
    BY <1>0, <1>3, <2>3, <2>4 DEF GenerationsLost, StudioInv, StudioTypeOK, BaseIsRead, NothingLostUnseen
<1>4. ASSUME NEW base \in 0 .. MaxSaved, SaveStrategy(base) PROVE StudioInv'
  <2>1. [base |-> base, rev |-> sdraft.rev, dsl |-> sdraft.dsl] \in [base : Nat, rev : Nat, dsl : Draws]
    BY <1>0 DEF StudioTypeOK
  <2>2. saved' \in Seq([base : Nat, rev : Nat, dsl : Draws]) /\ base = Len(saved)
    BY <1>0, <1>4, <2>1 DEF SaveStrategy, StudioTypeOK, BaseIsCurrent
  <2>3. \A i \in 1 .. Len(saved') : saved'[i].base = i - 1
    <3>1. PICK row \in [base : Nat, rev : Nat, dsl : Draws] : row.base = Len(saved) /\ saved' = Append(saved, row)
      BY <1>4, <2>1, <2>2 DEF SaveStrategy
    <3>2. saved \in Seq([base : Nat, rev : Nat, dsl : Draws]) /\ \A i \in 1 .. Len(saved) : saved[i].base = i - 1
      BY <1>0 DEF NothingLostUnseen, StudioTypeOK
    <3>. QED
      BY <3>1, <3>2
  <2>. QED
    BY <1>0, <1>4, <2>2, <2>3 DEF SaveStrategy, StudioInv, StudioTypeOK, BaseIsRead, NothingLostUnseen
<1>. QED
  BY <1>1, <1>2, <1>3, <1>4, PatchRuleKeeps, ApplyKeeps, GenerationStep DEF StudioNext

LEMMA StudioInitInv == ASSUME StudioInit PROVE StudioInv
<1>1. PICK r \in Rules : sdraft = [rev |-> 1, seen |-> 0, dsl |-> r, editor |-> Nothing, status |-> "ready"]
  BY DEF StudioInit
<1>2. StudioTypeOK
  BY <1>1 DEF StudioInit, StudioTypeOK, NoGen, Generation, GenPcs, GenStatuses, GenModes, Outs, Draws, GenDone
<1>3. BaseIsRead /\ NothingLostUnseen
  BY <1>1 DEF StudioInit, BaseIsRead, NothingLostUnseen, NoGen
<1>. QED
  BY <1>2, <1>3 DEF StudioInv

LEMMA StudioInvariance == StudioSpec => []StudioInv
<1>1. StudioInit => StudioInv
  BY StudioInitInv
<1>2. StudioInv /\ [StudioNext]_sdVars => StudioInv'
  BY StudioStep
<1>. QED
  BY <1>1, <1>2, PTL DEF StudioSpec

\* The compare-and-set of a draft (drafts.go, hub.go) and of a strategy (versions.go)
\* is enough: whoever replaces a revision has seen it, a model that answers late too.
THEOREM DraftsAreSeen == StudioSpec => []NothingLostUnseen
<1>1. StudioInv => NothingLostUnseen
  BY DEF StudioInv
<1>. QED
  BY <1>1, StudioInvariance, PTL

----------------------------------------------------------------------------
(***************************************************************************)
(* StrategyBacktests: the slots taken are those of runs under way.         *)
(***************************************************************************)

BtStatuses == {"none"} \cup BtActive \cup BtDone
BtPcs == {"idle", "insert", "prepare", "load", "running", "compute", "look", "persist", "publish",
          "fail", "failed", "over"}
Executing(u) == {r \in BtRuns : BtOwner[r] = u /\ work[r] \notin {"idle", "over"}}

\* A run that succeeded has nobody left who could still write about it.
BacktestInv ==
    /\ bt \in [BtRuns -> BtStatuses]
    /\ work \in [BtRuns -> BtPcs]
    /\ slots \in [BtUsers -> Nat]
    /\ \A r \in BtRuns : bt[r] = "succeeded" => work[r] = "over"
    /\ \A u \in BtUsers : slots[u] = Cardinality(Executing(u))

LEMMA ExecutingIsFinite == \A u : IsFiniteSet(Executing(u))
  <1> TAKE u
  <1>. QED
    BY BacktestAssumption, FS_Subset DEF Executing

\* A worker goes on: nothing changes for the slots.
LEMMA WorkGoesOn ==
    ASSUME BacktestInv, UNCHANGED slots, bt' \in [BtRuns -> BtStatuses],
           NEW r \in BtRuns, work[r] \notin {"idle", "over"}, NEW pc \in BtPcs, pc \notin {"idle", "over"},
           work' = [work EXCEPT ![r] = pc],
           \A q \in BtRuns : bt'[q] = "succeeded" => bt[q] = "succeeded"
    PROVE  BacktestInv'
<1>1. work' \in [BtRuns -> BtPcs] /\ \A q \in BtRuns : work'[q] = IF q = r THEN pc ELSE work[q]
  BY DEF BacktestInv
<1>2. \A u : Executing(u)' = Executing(u)
  BY <1>1 DEF Executing
<1>3. \A q \in BtRuns : bt'[q] = "succeeded" => work'[q] = "over"
  BY <1>1 DEF BacktestInv
<1>. QED
  BY <1>1, <1>2, <1>3 DEF BacktestInv

\* A worker ends and gives the slot back.
LEMMA WorkEnds ==
    ASSUME BacktestInv, bt' \in [BtRuns -> BtStatuses],
           NEW r \in BtRuns, work[r] \notin {"idle", "over"}, NEW pc \in {"idle", "over"},
           work' = [work EXCEPT ![r] = pc], ReturnSlot(r),
           \A q \in BtRuns : q # r => bt'[q] = bt[q],
           bt'[r] = "succeeded" => bt[r] = "succeeded" \/ pc = "over"
    PROVE  BacktestInv'
<1>0. BtOwner[r] \in BtUsers
  BY BacktestAssumption
<1>1. work' \in [BtRuns -> BtPcs] /\ \A q \in BtRuns : work'[q] = IF q = r THEN pc ELSE work[q]
  BY DEF BacktestInv, BtPcs
<1>2. \A u \in BtUsers : u # BtOwner[r] => Executing(u)' = Executing(u) /\ slots'[u] = slots[u]
  BY <1>1 DEF Executing, ReturnSlot, BacktestInv
<1>3. Executing(BtOwner[r])' = Executing(BtOwner[r]) \ {r} /\ r \in Executing(BtOwner[r])
  BY <1>1 DEF Executing
<1>4. slots[BtOwner[r]] \in Nat /\ slots[BtOwner[r]] = Cardinality(Executing(BtOwner[r]))
  BY <1>0 DEF BacktestInv
<1>5. Cardinality(Executing(BtOwner[r]) \ {r}) = Cardinality(Executing(BtOwner[r])) - 1
  BY <1>3, ExecutingIsFinite, FS_RemoveElement
<1>6. Cardinality(Executing(BtOwner[r]) \ {r}) \in Nat
  BY ExecutingIsFinite, FS_RemoveElement, FS_CardinalityType
<1>7. slots' = [slots EXCEPT ![BtOwner[r]] = Cardinality(Executing(BtOwner[r]) \ {r})]
  <2>1. Cardinality(Executing(BtOwner[r]) \ {r})
          = IF slots[BtOwner[r]] > 0 THEN slots[BtOwner[r]] - 1 ELSE 0
    BY <1>4, <1>5, <1>6
  <2>. QED
    BY <2>1 DEF ReturnSlot
<1>8. slots' \in [BtUsers -> Nat] /\ \A u \in BtUsers : slots'[u] = Cardinality(Executing(u)')
  BY <1>0, <1>2, <1>3, <1>6, <1>7 DEF BacktestInv
<1>9. \A q \in BtRuns : bt'[q] = "succeeded" => work'[q] = "over"
  BY <1>1 DEF BacktestInv
<1>. QED
  BY <1>1, <1>8, <1>9 DEF BacktestInv

\* Only the rows change, and none becomes a success.
LEMMA RowsChange ==
    ASSUME BacktestInv, UNCHANGED <<work, slots>>, bt' \in [BtRuns -> BtStatuses],
           \A q \in BtRuns : bt'[q] = "succeeded" => bt[q] = "succeeded"
    PROVE  BacktestInv'
<1>1. \A u : Executing(u)' = Executing(u)
  BY DEF Executing
<1>. QED
  BY <1>1 DEF BacktestInv

LEMMA StartKeepsSlots == ASSUME BacktestInv, NEW r \in BtRuns, StartBacktest(r) PROVE BacktestInv'
<1>0. BtOwner[r] \in BtUsers /\ work[r] = "idle" /\ bt[r] = "none"
  BY BacktestAssumption DEF StartBacktest
<1>1. work' \in [BtRuns -> BtPcs] /\ \A q \in BtRuns : work'[q] = IF q = r THEN "insert" ELSE work[q]
  BY DEF BacktestInv, BtPcs, StartBacktest
<1>2. Executing(BtOwner[r])' = Executing(BtOwner[r]) \cup {r} /\ r \notin Executing(BtOwner[r])
  BY <1>0, <1>1 DEF Executing
<1>3. Cardinality(Executing(BtOwner[r]) \cup {r}) = Cardinality(Executing(BtOwner[r])) + 1
  BY <1>2, ExecutingIsFinite, FS_AddElement
<1>4. \A u \in BtUsers : u # BtOwner[r] => Executing(u)' = Executing(u) /\ slots'[u] = slots[u]
  BY <1>0, <1>1 DEF Executing, StartBacktest, BacktestInv
<1>5. slots' \in [BtUsers -> Nat] /\ slots'[BtOwner[r]] = slots[BtOwner[r]] + 1
  BY <1>0 DEF StartBacktest, BacktestInv
<1>6. \A u \in BtUsers : slots'[u] = Cardinality(Executing(u)')
  BY <1>0, <1>2, <1>3, <1>4, <1>5 DEF BacktestInv
<1>7. \A q \in BtRuns : bt'[q] = "succeeded" => work'[q] = "over"
  BY <1>0, <1>1 DEF BacktestInv, StartBacktest
<1>. QED
  BY <1>1, <1>5, <1>6, <1>7 DEF BacktestInv, StartBacktest

LEMMA WorkerKeeps ==
    ASSUME BacktestInv, NEW r \in BtRuns,
           \/ InsertRun(r) \/ Prepare(r) \/ Load(r) \/ MarkRunning(r) \/ Compute(r)
           \/ LookForRunCancel(r) \/ PersistBacktest(r) \/ PublishResult(r) \/ FailRun(r)
    PROVE  BacktestInv'
<1>0. /\ bt \in [BtRuns -> BtStatuses] /\ work \in [BtRuns -> BtPcs] /\ slots \in [BtUsers -> Nat]
      /\ \A q \in BtRuns : bt[q] = "succeeded" => work[q] = "over"
  BY DEF BacktestInv
<1>1. CASE InsertRun(r)
  <2>0. work[r] = "insert"
    BY <1>1 DEF InsertRun
  <2>1. CASE bt' = [bt EXCEPT ![r] = "queued"] /\ work' = [work EXCEPT ![r] = "prepare"] /\ UNCHANGED slots
    <3>1. /\ bt' \in [BtRuns -> BtStatuses] /\ \A q \in BtRuns : bt'[q] = "succeeded" => bt[q] = "succeeded"
      BY <1>0, <2>1 DEF BtStatuses, BtActive
    <3>. QED
      BY <2>0, <2>1, <3>1, WorkGoesOn DEF BtPcs
  <2>2. CASE work' = [work EXCEPT ![r] = "idle"] /\ ReturnSlot(r) /\ UNCHANGED bt
    BY <1>0, <2>0, <2>2, WorkEnds
  <2>. QED
    BY <1>1, <2>1, <2>2 DEF InsertRun
<1>2. CASE Prepare(r) \/ MarkRunning(r)
  <2>1. PICK status \in BtActive, pc \in {"load", "compute"} : Mark(r, status, pc)
    BY <1>2 DEF Prepare, MarkRunning, BtActive
  <2>2. work[r] \in {"prepare", "running"}
    BY <1>2 DEF Prepare, MarkRunning
  <2>3. bt' \in [BtRuns -> BtStatuses] /\ \A q \in BtRuns : bt'[q] = "succeeded" => bt[q] = "succeeded"
    BY <1>0, <2>1 DEF Mark, BtStatuses, BtActive
  <2>. QED
    BY <2>1, <2>2, <2>3, WorkGoesOn DEF Mark, BtPcs
<1>3. CASE Load(r) \/ Compute(r)
  <2>1. PICK pc \in {"running", "fail", "look"} : work' = [work EXCEPT ![r] = pc]
    BY <1>3 DEF Load, Compute
  <2>2. work[r] \in {"load", "compute"} /\ UNCHANGED <<bt, slots>>
    BY <1>3 DEF Load, Compute
  <2>. QED
    BY <1>0, <2>1, <2>2, WorkGoesOn DEF BtPcs
<1>4. CASE LookForRunCancel(r)
  <2>0. work[r] \in {"look", "fail"} /\ UNCHANGED bt
    BY <1>4 DEF LookForRunCancel
  <2>1. CASE bt[r] = "canceled"
    BY <1>0, <1>4, <2>0, <2>1, WorkEnds DEF LookForRunCancel, End
  <2>2. CASE bt[r] # "canceled"
    <3>1. PICK pc \in {"persist", "failed"} : work' = [work EXCEPT ![r] = pc] /\ UNCHANGED slots
      BY <1>4, <2>2 DEF LookForRunCancel
    <3>. QED
      BY <1>0, <2>0, <3>1, WorkGoesOn DEF BtPcs
  <2>. QED
    BY <2>1, <2>2
<1>5. CASE PersistBacktest(r)
  BY <1>0, <1>5, WorkGoesOn DEF PersistBacktest, BtPcs
<1>6. CASE PublishResult(r) \/ FailRun(r)
  <2>1. PICK status \in BtDone : bt' = [bt EXCEPT ![r] = status]
    BY <1>6 DEF PublishResult, FailRun, BtDone
  <2>2. bt' \in [BtRuns -> BtStatuses] /\ \A q \in BtRuns : q # r => bt'[q] = bt[q]
    BY <1>0, <2>1 DEF BtStatuses
  <2>3. work[r] \in {"publish", "failed"} /\ work' = [work EXCEPT ![r] = "over"] /\ ReturnSlot(r)
    BY <1>6 DEF PublishResult, FailRun, End
  <2>. QED
    BY <2>2, <2>3, WorkEnds
<1>. QED
  BY <1>1, <1>2, <1>3, <1>4, <1>5, <1>6

LEMMA BacktestStep == ASSUME BacktestInv, [BacktestNext]_btVars PROVE BacktestInv'
<1>0. bt \in [BtRuns -> BtStatuses]
  BY DEF BacktestInv
<1>1. CASE UNCHANGED btVars
  BY <1>0, <1>1, RowsChange DEF btVars
<1>2. ASSUME NEW r \in BtRuns, CancelBacktest(r) PROVE BacktestInv'
  BY <1>0, <1>2, RowsChange DEF CancelBacktest, BtStatuses, BtDone
<1>3. ASSUME NEW u \in BtUsers, DeleteStrategy(u) PROVE BacktestInv'
  BY <1>0, <1>3, RowsChange DEF DeleteStrategy, BtStatuses, BtDone
<1>4. CASE BacktestsLost
  <2>1. work' \in [BtRuns -> BtPcs] /\ \A r \in BtRuns : work'[r] \in {"idle", "over"}
    BY <1>4 DEF BacktestsLost, BtPcs
  <2>2. \A u \in BtUsers : Executing(u)' = {}
    BY <2>1 DEF Executing
  <2>3. slots' \in [BtUsers -> Nat] /\ \A u \in BtUsers : slots'[u] = Cardinality(Executing(u)')
    BY <1>4, <2>2, FS_EmptySet DEF BacktestsLost
  <2>4. \A r \in BtRuns : bt'[r] = "succeeded" => work'[r] = "over"
    BY <1>4 DEF BacktestsLost, BacktestInv
  <2>. QED
    BY <1>4, <2>1, <2>3, <2>4 DEF BacktestsLost, BacktestInv
<1>. QED
  BY <1>1, <1>2, <1>3, <1>4, StartKeepsSlots, WorkerKeeps DEF BacktestNext

LEMMA BacktestInitInv == ASSUME BacktestInit PROVE BacktestInv
<1>1. \A u \in BtUsers : Executing(u) = {}
  BY DEF BacktestInit, Executing
<1>. QED
  BY <1>1, FS_EmptySet DEF BacktestInit, BacktestInv, BtStatuses, BtPcs

\* The slots of a user are counted in memory, apart from the rows (hub.go): through
\* refused inserts, failures, cancellations, deletions and restarts they are exactly
\* the backtests that are executing, and results are read of no other run than one
\* that is over.
THEOREM SlotsAreCounted == BacktestSpec => []SlotsAreExecutions
<1>1. BacktestInit => BacktestInv
  BY BacktestInitInv
<1>2. BacktestInv /\ [BacktestNext]_btVars => BacktestInv'
  BY BacktestStep
<1>3. BacktestInv => SlotsAreExecutions
  BY DEF BacktestInv, SlotsAreExecutions, Executing, Readable
<1>. QED
  BY <1>1, <1>2, <1>3, PTL DEF BacktestSpec

----------------------------------------------------------------------------
(***************************************************************************)
(* BacktestLedger: cash, lots and the fills that are shown belong together. *)
(***************************************************************************)

Lot == [qty : Nat \ {0}, cost : Int, available : Int]

\* Somebody who is about to buy holds nothing.
EngineInv ==
    /\ bar \in [i : Nat, phase : {"actions", "open", "close"}]
    /\ prevol \in Volumes \cup {0}
    /\ bar.phase = "open" => today.open \in Prices
    /\ bar.phase # "actions" => today.vol \in Volumes
    /\ bcash \in Nat /\ recv \in Nat /\ deltas \in Int
    /\ lots \in Seq(Lot) /\ Len(lots) <= 1
    /\ bcash = InitialCash + deltas
    /\ pend = "buy" => lots = <<>>

----------------------------------------------------------------------------
\* Sums over at most one lot.
LotOf(X) == CHOOSE x \in X : TRUE
Others(X) == X \ {LotOf(X)}
SumsTo(g, ls, K) == g = [X \in SUBSET K |-> IF X = {} THEN 0 ELSE ls[LotOf(X)].qty + g[Others(X)]]

LEMMA SumUnfolds == ASSUME NEW ls, NEW K PROVE sumOf(ls, K) = (CHOOSE g : SumsTo(g, ls, K))[K]
  BY DEF sumOf, MapThenSumSet, MapThenFoldSet, SumsTo, LotOf, Others

LEMMA SumOfNone == ASSUME NEW ls PROVE sumOf(ls, {}) = 0
<1> DEFINE h == [X \in SUBSET {} |-> 0]
<1>1. SumsTo(h, ls, {})
  BY DEF SumsTo
<1>. HIDE DEF h
<1>2. SumsTo(CHOOSE g : SumsTo(g, ls, {}), ls, {})
  BY <1>1
<1>. QED
  BY <1>2, SumUnfolds DEF SumsTo

LEMMA SumOfOne == ASSUME NEW ls, NEW k, ls[k].qty \in Int PROVE sumOf(ls, {k}) = ls[k].qty
<1>1. \A X \in SUBSET {k} : X = {} \/ X = {k}
  OBVIOUS
<1>2. LotOf({k}) = k /\ Others({k}) = {}
  BY DEF LotOf, Others
<1> DEFINE h == [X \in SUBSET {k} |-> IF X = {} THEN 0 ELSE ls[k].qty]
<1>3. h[{}] = 0
  OBVIOUS
<1>4. \A X \in SUBSET {k} : h[X] = IF X = {} THEN 0
                            ELSE ls[LotOf(X)].qty + h[Others(X)]
  <2> SUFFICES ASSUME NEW X \in SUBSET {k}, X # {}
               PROVE  h[X] = ls[LotOf(X)].qty + h[Others(X)]
    OBVIOUS
  <2>1. X = {k}
    BY <1>1
  <2>2. h[X] = ls[k].qty
    BY <2>1
  <2>. HIDE DEF h
  <2>3. ls[LotOf(X)].qty = ls[k].qty /\ h[Others(X)] = 0
    BY <1>2, <1>3, <2>1, Zenon
  <2>. QED
    BY <2>2, <2>3
<1>5. h = [X \in SUBSET {k} |-> h[X]]
  OBVIOUS
<1>6. h[{k}] = ls[k].qty
  OBVIOUS
<1>. HIDE DEF h
<1>7. SumsTo(h, ls, {k})
  BY <1>4, <1>5 DEF SumsTo
<1>8. SumsTo(CHOOSE g : SumsTo(g, ls, {k}), ls, {k})
  BY <1>7
<1>9. ASSUME NEW g, SumsTo(g, ls, {k}) PROVE g[{k}] = ls[k].qty
  <2>1. g[{}] = 0
    BY <1>9 DEF SumsTo
  <2>2. g[{k}] = ls[LotOf({k})].qty + g[Others({k})]
    BY <1>9 DEF SumsTo
  <2>3. ls[LotOf({k})].qty = ls[k].qty /\ g[Others({k})] = 0
    BY <1>2, <2>1, Zenon
  <2>. QED
    BY <2>2, <2>3
<1>. QED
  BY <1>8, <1>9, SumUnfolds

LEMMA LotsAre ==
    ASSUME lots \in Seq(Lot), Len(lots) <= 1
    PROVE  \/ lots = <<>> /\ DOMAIN lots = {}
           \/ DOMAIN lots = {1} /\ Len(lots) = 1 /\ lots[1] \in Lot
<1>1. Len(lots) \in Nat /\ DOMAIN lots = 1 .. Len(lots)
  OBVIOUS
<1>2. CASE Len(lots) = 0
  BY <1>1, <1>2
<1>3. CASE Len(lots) = 1
  BY <1>1, <1>3
<1>. QED
  BY <1>1, <1>2, <1>3

\* What lies in the lots.
LEMMA SumOfLots ==
    ASSUME lots \in Seq(Lot), Len(lots) <= 1, NEW K, K \subseteq DOMAIN lots
    PROVE  sumOf(lots, K) \in Nat
<1>1. CASE K = {}
  BY <1>1, SumOfNone
<1>2. CASE K # {}
  <2>1. K = {1} /\ lots[1].qty \in Nat
    BY <1>2, LotsAre DEF Lot
  <2>. QED
    BY <2>1, SumOfOne
<1>. QED
  BY <1>1, <1>2

LEMMA NothingHeld == ASSUME lots \in Seq(Lot), Len(lots) <= 1, sumQty(lots) = 0 PROVE lots = <<>>
<1>1. SUFFICES ASSUME DOMAIN lots = {1}, lots[1] \in Lot PROVE FALSE
  BY LotsAre
<1>2. sumQty(lots) = lots[1].qty /\ lots[1].qty \in Nat \ {0}
  BY <1>1, SumOfOne DEF sumQty, Lot
<1>. QED
  BY <1>2

----------------------------------------------------------------------------
\* Quantities are numbers of whole lots.
LEMMA Quotient == ASSUME NEW a \in Nat, NEW b \in Nat \ {0} PROVE a \div b \in Nat
  OBVIOUS

LEMMA Product == ASSUME NEW a \in Nat, NEW b \in Nat PROVE a * b \in Nat
  OBVIOUS

LEMMA AtLeastOnce == ASSUME NEW a \in Nat, NEW n \in Nat \ {0} PROVE a * n >= a
  OBVIOUS

LEMMA Regroup == ASSUME NEW a \in Int, NEW b \in Int, NEW c \in Int PROVE a * (b * c) = (a * c) * b
  OBVIOUS

LEMMA WholeLots == ASSUME NEW q \in Nat PROVE \E n \in Nat : floorLot(q) = n * LotSize /\ floorLot(q) \in Nat
<1>1. PICK n \in Nat : n = q \div LotSize
  BY EngineAssumption, Quotient
<1>2. floorLot(q) = n * LotSize /\ n * LotSize \in Nat
  BY <1>1, EngineAssumption, Product DEF floorLot
<1>. QED
  BY <1>2

LEMMA CappedIsNat ==
    ASSUME NEW q \in Nat, Share(prevol) \in Nat, Share(today.vol) \in Nat
    PROVE  Capped(q) \in Nat
<1>1. PICK s \in Nat : s = floorLot(Share(prevol))
  BY WholeLots
<1>2. PICK t \in Nat : t = floorLot(Share(today.vol))
  BY WholeLots
<1>. QED
  BY <1>1, <1>2 DEF Capped

LEMMA ActionsKeep == ASSUME EngineInv, ApplyActions PROVE EngineInv'
<1>0. /\ bcash \in Nat /\ recv \in Nat /\ deltas \in Int /\ bcash = InitialCash + deltas /\ InitialCash \in Nat
      /\ lots \in Seq(Lot) /\ Len(lots) <= 1 /\ bar \in [i : Nat, phase : {"actions", "open", "close"}]
      /\ prevol \in Volumes \cup {0}
  BY EngineAssumption DEF EngineInv
<1>1. /\ today'.open \in Prices /\ today'.vol \in Volumes
      /\ bar' \in [i : Nat, phase : {"actions", "open", "close"}]
      /\ UNCHANGED <<prevol, pend>>
  BY <1>0 DEF ApplyActions
<1>2. \E cash, due \in Nat, ls \in Seq(Lot) : Booked(ls, cash, due) /\ Len(ls) <= 1 /\ (lots = <<>> => ls = <<>>)
  <2>1. CASE Booked(lots, bcash, recv)
    BY <1>0, <2>1
  <2>2. ASSUME NEW r \in Splits, Booked([k \in DOMAIN lots |-> [lots[k] EXCEPT !.qty = @ * r]], bcash, recv)
        PROVE  \E cash, due \in Nat, ls \in Seq(Lot) :
                   Booked(ls, cash, due) /\ Len(ls) <= 1 /\ (lots = <<>> => ls = <<>>)
    <3>1. r \in Nat \ {0}
      BY EngineAssumption
    <3> DEFINE ls == [k \in DOMAIN lots |-> [lots[k] EXCEPT !.qty = @ * r]]
    <3>2. ASSUME NEW o \in Lot PROVE [o EXCEPT !.qty = @ * r] \in Lot
      <4>1. o.qty * r \in Nat \ {0}
        <5>1. o.qty \in Nat \ {0}
          BY DEF Lot
        <5>2. o.qty * r >= o.qty
          BY <3>1, <5>1, AtLeastOnce
        <5>. QED
          BY <3>1, <5>1, <5>2, Product
      <4>2. PICK q \in Nat \ {0} : q = o.qty * r
        BY <4>1
      <4>3. [o EXCEPT !.qty = q] \in Lot
        BY DEF Lot
      <4>. QED
        BY <4>2, <4>3
    <3>3. DOMAIN lots = 1 .. Len(lots) /\ Len(lots) \in Nat /\ \A k \in 1 .. Len(lots) : lots[k] \in Lot
      BY <1>0
    <3>4. ls = [k \in 1 .. Len(lots) |-> ls[k]] /\ \A k \in 1 .. Len(lots) : ls[k] \in Lot
      BY <3>2, <3>3
    <3>5. (lots = <<>> => ls = <<>>)
      BY <3>3
    <3>6. Booked(ls, bcash, recv)
      BY <2>2
    <3>. HIDE DEF ls
    <3>7. ls \in Seq(Lot) /\ Len(ls) <= 1
      BY <1>0, <3>3, <3>4
    <3>. QED
      BY <1>0, <3>5, <3>6, <3>7
  <2>3. CASE Booked(lots, bcash, sumQty(lots))
    <3>1. sumQty(lots) \in Nat
      BY <1>0, SumOfLots DEF sumQty
    <3>. QED
      BY <1>0, <2>3, <3>1
  <2>4. CASE Booked(lots, bcash + recv, 0)
    <3>1. bcash + recv \in Nat
      BY <1>0
    <3>. QED
      BY <1>0, <2>4, <3>1
  <2>. QED
    BY <2>1, <2>2, <2>3, <2>4 DEF ApplyActions
<1>3. PICK cash, due \in Nat, ls \in Seq(Lot) : Booked(ls, cash, due) /\ Len(ls) <= 1 /\ (lots = <<>> => ls = <<>>)
  BY <1>2
<1>4. lots' = ls /\ bcash' = cash /\ recv' = due /\ deltas' = deltas + (cash - bcash)
  BY <1>3 DEF Booked
<1>5. deltas' \in Int /\ bcash' = InitialCash + deltas'
  BY <1>0, <1>4
<1>6. pend' = "buy" => lots' = <<>>
  BY <1>1, <1>3, <1>4 DEF EngineInv
<1>. QED
  BY <1>0, <1>1, <1>3, <1>4, <1>5, <1>6 DEF EngineInv

LEMMA BuyKeeps ==
    ASSUME EngineInv, bar.phase = "open", Buy
    PROVE  /\ bcash' \in Nat /\ deltas' \in Int /\ bcash' = InitialCash + deltas'
           /\ lots' \in Seq(Lot) /\ Len(lots') <= 1 /\ (pend' = "buy" => lots' = <<>>)
<1>0. /\ bcash \in Nat /\ deltas \in Int /\ bcash = InitialCash + deltas /\ InitialCash \in Nat
      /\ lots = <<>> /\ pend' = "none" /\ today.open \in Nat /\ MinFee \in Nat /\ LotSize \in Nat \ {0}
      /\ Share(prevol) \in Nat /\ Share(today.vol) \in Nat /\ bar.i \in Nat /\ TPlus \in Nat /\ TargetFrac \in Nat
  BY EngineAssumption DEF EngineInv, Buy
<1>1. BuyQty \in Nat
  <2>1. BuyPrice \in Nat \ {0} /\ 100 * BuyPrice \in Nat \ {0}
    BY <1>0 DEF BuyPrice
  <2>2. bcash * TargetFrac \in Nat
    BY <1>0, Product
  <2>3. PICK q \in Nat : q = (bcash * TargetFrac) \div (100 * BuyPrice)
    BY <2>1, <2>2, Quotient
  <2>4. PICK a \in Nat : a = floorLot(q)
    BY WholeLots
  <2>. QED
    BY <1>0, <2>3, <2>4, CappedIsNat DEF BuyQty
<1>2. PICK need \in Nat : need = BuyPrice * BuyQty + MinFee
  <2>1. BuyPrice \in Nat
    BY <1>0 DEF BuyPrice
  <2>2. BuyPrice * BuyQty \in Nat
    BY <1>1, <2>1, Product
  <2>. QED
    BY <1>0, <2>2
<1>3. CASE Fillable("buy") /\ BuyQty >= LotSize /\ Payable(BuyQty)
  <2>1. need <= bcash /\ BuyQty \in Nat \ {0}
    BY <1>0, <1>1, <1>2, <1>3 DEF Payable
  <2>2. bcash' = bcash - need /\ deltas' = deltas - need
    BY <1>2, <1>3 DEF Buy
  <2>3. lots' = Append(lots, [qty |-> BuyQty, cost |-> need, available |-> bar.i + TPlus])
    BY <1>2, <1>3 DEF Buy
  <2>4. PICK o \in Lot : lots' = Append(lots, o)
    BY <1>0, <2>1, <2>3 DEF Lot
  <2>5. lots' \in Seq(Lot) /\ Len(lots') = 1
    BY <1>0, <2>4
  <2>. QED
    BY <1>0, <2>1, <2>2, <2>5
<1>4. CASE ~(Fillable("buy") /\ BuyQty >= LotSize /\ Payable(BuyQty))
  <2>1. UNCHANGED <<bcash, deltas, lots>>
    BY <1>4 DEF Buy
  <2>. QED
    BY <1>0, <2>1 DEF EngineInv
<1>. QED
  BY <1>3, <1>4

\* Selling from the one lot: what is left of it, or nothing.
LEMMA ReducedLots ==
    ASSUME EngineInv, NEW q \in Nat
    PROVE  reduceLots(q) \in Seq(Lot) /\ Len(reduceLots(q)) <= 1 /\ (lots = <<>> => reduceLots(q) = <<>>)
<1> DEFINE Out(F) == F = [k \in 0 .. Len(lots) |->
                            IF k = 0 THEN <<>>
                            ELSE IF Reduced(k, q).qty > 0 THEN Append(F[k - 1], Reduced(k, q)) ELSE F[k - 1]]
<1>1. reduceLots(q) = (CHOOSE F : Out(F))[Len(lots)]
  BY DEF reduceLots
<1>2. /\ Len(lots) \in Nat /\ Len(lots) <= 1 /\ DOMAIN lots = 1 .. Len(lots)
      /\ \A k \in 1 .. Len(lots) : lots[k] \in Lot
  BY DEF EngineInv
<1> DEFINE G == [k \in 0 .. Len(lots) |->
                   IF k = 0 THEN <<>>
                   ELSE IF Reduced(k, q).qty > 0 THEN Append(<<>>, Reduced(k, q)) ELSE <<>>]
<1>3. Out(G)
  <2>1. \A k \in 0 .. Len(lots) : k # 0 => k - 1 = 0
    BY <1>2
  <2>2. G[0] = <<>>
    BY <1>2
  <2>3. \A k \in 0 .. Len(lots) : k # 0 => G[k - 1] = <<>>
    BY <2>1, <2>2
  <2>. QED
    BY <2>3
<1>4. Out(CHOOSE F : Out(F))
  <2>. HIDE DEF Out, G
  <2>. QED
    BY <1>3
<1>5. ASSUME NEW F, Out(F) PROVE F[Len(lots)] = G[Len(lots)]
  <2>1. F[0] = <<>>
    BY <1>2, <1>5
  <2>2. CASE Len(lots) = 0
    BY <2>1, <2>2
  <2>3. CASE Len(lots) = 1
    <3>1. F[1] = IF Reduced(1, q).qty > 0 THEN Append(F[1 - 1], Reduced(1, q)) ELSE F[1 - 1]
      <4>1. \A k \in 0 .. Len(lots) : F[k] = IF k = 0 THEN <<>>
                ELSE IF Reduced(k, q).qty > 0 THEN Append(F[k - 1], Reduced(k, q)) ELSE F[k - 1]
        BY <1>5
      <4>2. 1 \in 0 .. Len(lots) /\ 1 # 0
        BY <2>3
      <4>. QED
        BY <4>1, <4>2, Zenon
    <3>2. G[1] = IF Reduced(1, q).qty > 0 THEN Append(<<>>, Reduced(1, q)) ELSE <<>>
      BY <2>3
    <3>3. F[1 - 1] = <<>>
      BY <2>1
    <3>. QED
      BY <2>3, <3>1, <3>2, <3>3
  <2>. QED
    BY <1>2, <2>2, <2>3
<1>6. reduceLots(q) = G[Len(lots)]
  <2>. HIDE DEF Out, G
  <2>. QED
    BY <1>1, <1>4, <1>5
<1>7. CASE Len(lots) = 0
  BY <1>6, <1>7
<1>8. CASE Len(lots) = 1
  <2>0. lots # <<>>
    BY <1>8
  <2>1. lots[1] \in Lot /\ sumOf(lots, {}) = 0
    BY <1>2, <1>8, SumOfNone
  <2>2. Left(1, q) = q
    BY <2>1 DEF Left
  <2>3. ASSUME Reduced(1, q).qty > 0 PROVE Reduced(1, q) \in Lot
    <3>1. CASE q <= 0
      BY <2>1, <2>2, <3>1 DEF Reduced
    <3>2. CASE ~(q <= 0)
      <4>1. Reduced(1, q) = [lots[1] EXCEPT !.qty = IF @ <= q THEN 0 ELSE @ - q]
        BY <2>2, <3>2 DEF Reduced
      <4>2. lots[1].qty \in Nat
        BY <2>1 DEF Lot
      <4>3. PICK n \in Int : n = IF lots[1].qty <= q THEN 0 ELSE lots[1].qty - q
        BY <4>2
      <4>4. Reduced(1, q) = [lots[1] EXCEPT !.qty = n]
        BY <4>1, <4>3
      <4>5. n > 0
        BY <2>1, <2>3, <4>4 DEF Lot
      <4>. QED
        BY <2>1, <4>4, <4>5 DEF Lot
    <3>. QED
      BY <3>1, <3>2
  <2>4. reduceLots(q) = IF Reduced(1, q).qty > 0 THEN Append(<<>>, Reduced(1, q)) ELSE <<>>
    BY <1>6, <1>8
  <2>5. <<>> \in Seq(Lot)
    OBVIOUS
  <2>6. CASE Reduced(1, q).qty > 0
    <3>1. PICK o \in Lot : o = Reduced(1, q)
      BY <2>3, <2>6
    <3>2. reduceLots(q) = Append(<<>>, o)
      BY <2>4, <2>6, <3>1
    <3>. QED
      BY <2>0, <2>5, <3>2
  <2>. QED
    BY <2>0, <2>4, <2>5, <2>6
<1>. QED
  BY <1>2, <1>7, <1>8

LEMMA SellKeeps ==
    ASSUME EngineInv, bar.phase = "open", Sell
    PROVE  /\ bcash' \in Nat /\ deltas' \in Int /\ bcash' = InitialCash + deltas'
           /\ lots' \in Seq(Lot) /\ Len(lots') <= 1 /\ (pend' = "buy" => lots' = <<>>)
<1>0. /\ bcash \in Nat /\ deltas \in Int /\ bcash = InitialCash + deltas /\ InitialCash \in Nat
      /\ today.open \in Prices /\ today.open \in Nat \ {0} /\ MinFee \in Nat /\ LotSize \in Nat \ {0}
      /\ Share(prevol) \in Nat /\ Share(today.vol) \in Nat /\ pend = "sell"
      /\ lots \in Seq(Lot) /\ Len(lots) <= 1
  BY EngineAssumption DEF EngineInv, Sell
<1>1. PICK n \in Nat : SellQty = n * LotSize /\ SellQty \in Nat
  <2>1. sumOf(lots, Sellable) \in Nat
    BY <1>0, SumOfLots DEF Sellable
  <2>2. Capped(sumOf(lots, Sellable)) \in Nat
    BY <1>0, <2>1, CappedIsNat
  <2>. QED
    BY <2>2, WholeLots DEF SellQty
<1>2. CASE Fillable("sell") /\ SellQty > 0
  <2>1. n # 0
    BY <1>0, <1>1, <1>2
  <2>2. PICK w \in Nat : w = SellPrice * LotSize /\ w >= MinFee
    <3>1. today.open - 1 \in Nat
      BY <1>0
    <3>2. (today.open - 1) * LotSize \in Nat
      BY <1>0, <3>1, Product
    <3>. QED
      BY <1>0, <3>2, ALotPaysItsFee DEF SellPrice
  <2>3. SellPrice \in Int
    BY <1>0 DEF SellPrice
  <2>4. SellPrice * SellQty = w * n
    <3>1. LotSize \in Int /\ n \in Int
      BY <1>0
    <3>2. SellPrice * (n * LotSize) = (SellPrice * LotSize) * n
      BY <2>3, <3>1, Regroup
    <3>. QED
      BY <1>1, <2>2, <3>2
  <2>5. PICK p \in Nat : p = SellPrice * SellQty /\ p >= MinFee
    <3>1. w * n \in Nat /\ w * n >= w
      BY <2>1, <2>2, Product, AtLeastOnce
    <3>. QED
      BY <1>0, <2>2, <2>4, <3>1
  <2>6. bcash' = bcash + p - MinFee /\ deltas' = deltas + p - MinFee
    BY <1>2, <2>5 DEF Sell
  <2>7. lots' = reduceLots(SellQty) /\ pend' = "none"
    BY <1>2 DEF Sell
  <2>8. bcash' \in Nat /\ deltas' \in Int /\ bcash' = InitialCash + deltas'
    BY <1>0, <2>5, <2>6
  <2>. QED
    BY <1>1, <2>7, <2>8, ReducedLots
<1>3. CASE ~(Fillable("sell") /\ SellQty > 0)
  <2>1. UNCHANGED <<bcash, deltas, lots, pend>>
    BY <1>3 DEF Sell
  <2>. QED
    BY <1>0, <2>1
<1>. QED
  BY <1>2, <1>3

LEMMA EngineStep == ASSUME EngineInv, [EngineNext]_blVars PROVE EngineInv'
<1>1. CASE UNCHANGED blVars
  BY <1>1 DEF blVars, EngineInv
<1>2. CASE Execute
  <2>1. /\ bcash' \in Nat /\ deltas' \in Int /\ bcash' = InitialCash + deltas'
        /\ lots' \in Seq(Lot) /\ Len(lots') <= 1 /\ (pend' = "buy" => lots' = <<>>)
    <3>1. CASE pend = "none" /\ UNCHANGED <<bcash, deltas, lots, sold, pend, cycle>>
      BY <3>1 DEF EngineInv
    <3>. QED
      BY <1>2, <3>1, BuyKeeps, SellKeeps DEF Execute
  <2>2. bar' \in [i : Nat, phase : {"actions", "open", "close"}] /\ bar'.phase = "close"
    BY <1>2 DEF Execute, EngineInv
  <2>. QED
    BY <1>2, <2>1, <2>2 DEF Execute, EngineInv
<1>3. CASE Signal
  <2>1. pend' = "buy" => lots = <<>>
    <3>1. CASE MayEnter
      BY <3>1, NothingHeld DEF MayEnter, EngineInv
    <3>. QED
      BY <1>3, <3>1 DEF Signal, EngineInv
  <2>2. bar' \in [i : Nat, phase : {"actions", "open", "close"}] /\ bar'.phase = "actions"
    BY <1>3 DEF Signal, EngineInv
  <2>3. prevol' \in Volumes \cup {0}
    BY <1>3 DEF Signal, EngineInv
  <2>. QED
    BY <1>3, <2>1, <2>2, <2>3 DEF Signal, EngineInv
<1>. QED
  BY <1>1, <1>2, <1>3, ActionsKeep DEF EngineNext

LEMMA EngineInitInv == ASSUME EngineInit PROVE EngineInv
<1>1. <<>> \in Seq(Lot) /\ Len(<<>>) = 0
  OBVIOUS
<1>. QED
  BY <1>1, EngineAssumption DEF EngineInit, EngineInv

\* The engine buys with cash it has (engine.go, execute), a dividend is paid out of
\* what was recorded, and an entry waits until the position is gone: at every price,
\* volume and lot size the cash is what the fills and the dividends made of it, it is
\* never negative, and there is at most one position.
THEOREM CashIsAccounted == EngineSpec => []BooksBalance
<1>1. EngineInit => EngineInv
  BY EngineInitInv
<1>2. EngineInv /\ [EngineNext]_blVars => EngineInv'
  BY EngineStep
<1>3. EngineInv => BooksBalance
  <2> SUFFICES ASSUME EngineInv PROVE BooksBalance
    OBVIOUS
  <2>1. \A k \in DOMAIN lots : lots[k] \in Lot
    BY DEF EngineInv
  <2>. QED
    BY <2>1 DEF EngineInv, BooksBalance, Lot
<1>. QED
  BY <1>1, <1>2, <1>3, PTL DEF EngineSpec

----------------------------------------------------------------------------
(***************************************************************************)
(* StrategyMarket: a request that is sent again acts once.                 *)
(***************************************************************************)

IsSequence(s) == \E S : s \in Seq(S)

KeysDiffer(s) == \A i, j \in DOMAIN s : s[i].key = s[j].key => i = j

\* The keys of the copies and of the audit trail are those of requests that have
\* been answered.
KeysAnswered(s) == \A i \in DOMAIN s : s[i].key \in MkKeys /\ mstored[s[i].key] # Unanswered

MarketInv ==
    /\ mitem.rev \in Nat /\ DOMAIN mitem = {"status", "rev", "cur"}
    /\ DOMAIN mstored = MkKeys /\ DOMAIN mgot = MkKeys
    /\ mstored = [k \in MkKeys |-> mstored[k]] /\ mgot = [k \in MkKeys |-> mgot[k]]
    /\ IsSequence(mcopies) /\ IsSequence(mtrail)
    /\ KeysAnswered(mcopies) /\ KeysAnswered(mtrail)
    /\ EachKeyOnce

LEMMA Appended ==
    ASSUME NEW s, IsSequence(s), NEW e
    PROVE  /\ IsSequence(Append(s, e)) /\ Len(s) \in Nat /\ DOMAIN s = 1 .. Len(s)
           /\ Len(Append(s, e)) = Len(s) + 1 /\ DOMAIN Append(s, e) = 1 .. Len(s) + 1
           /\ \A i \in 1 .. Len(s) : Append(s, e)[i] = s[i]
           /\ Append(s, e)[Len(s) + 1] = e
<1>1. PICK S : s \in Seq(S)
  BY DEF IsSequence
<1>2. s \in Seq(S \cup {e}) /\ e \in S \cup {e}
  BY <1>1
<1>. HIDE <1>1
<1>3. PICK T : s \in Seq(T) /\ e \in T
  BY <1>2
<1>4. Append(s, e) \in Seq(T)
  BY <1>3
<1>. QED
  BY <1>3, <1>4 DEF IsSequence

\* A key that has no entry yet gets one.
LEMMA AnotherKey ==
    ASSUME NEW s, IsSequence(s), NEW e, KeysDiffer(s), \A i \in DOMAIN s : s[i].key # e.key
    PROVE  KeysDiffer(Append(s, e))
<1> DEFINE t == Append(s, e)
<1>1. /\ Len(s) \in Nat /\ DOMAIN s = 1 .. Len(s) /\ DOMAIN t = 1 .. Len(s) + 1
      /\ \A i \in 1 .. Len(s) : t[i] = s[i]
      /\ t[Len(s) + 1] = e
  BY Appended
<1>. HIDE DEF t
<1>2. \A i \in DOMAIN t : i = Len(s) + 1 \/ (i \in DOMAIN s /\ t[i] = s[i])
  BY <1>1
<1>3. \A i, j \in DOMAIN t : t[i].key = t[j].key => i = j
  BY <1>1, <1>2 DEF KeysDiffer
<1>. QED
  BY <1>3 DEF KeysDiffer, t

\* An answer is stored under the key, and no other.
LEMMA Answered ==
    ASSUME MarketInv, NEW k \in MkKeys, ~Replayed(k), NEW object, object # "none", NEW no, Answer(k, object, no)
    PROVE  /\ DOMAIN mstored' = MkKeys /\ DOMAIN mgot' = MkKeys
           /\ mstored' = [j \in MkKeys |-> mstored'[j]] /\ mgot' = [j \in MkKeys |-> mgot'[j]]
           /\ mstored'[k] # Unanswered /\ \A j \in MkKeys : j # k => mstored'[j] = mstored[j]
           /\ \A j \in MkKeys : mgot'[j] # Unanswered => mgot'[j] = mstored'[j]
<1>1. [object |-> object, no |-> no] # Unanswered
  BY DEF Unanswered
<1> DEFINE a == [object |-> object, no |-> no]
<1>2. mstored' = [mstored EXCEPT ![k] = a] /\ mgot' \in {mgot, [mgot EXCEPT ![k] = a]}
  BY DEF Answer
<1>. HIDE DEF a
<1>3. mstored[k] = Unanswered
  BY DEF Replayed
<1>4. /\ mstored = [j \in MkKeys |-> mstored[j]] /\ mgot = [j \in MkKeys |-> mgot[j]]
      /\ \A j \in MkKeys : mgot[j] # Unanswered => mgot[j] = mstored[j]
  BY DEF MarketInv, EachKeyOnce
<1>5. DOMAIN mstored' = MkKeys /\ mstored'[k] = a /\ \A j \in MkKeys : j # k => mstored'[j] = mstored[j]
  BY <1>2, <1>4
<1>6. DOMAIN mgot' = MkKeys /\ mgot'[k] \in {mgot[k], a} /\ \A j \in MkKeys : j # k => mgot'[j] = mgot[j]
  BY <1>2, <1>4
<1>7. mstored' = [j \in MkKeys |-> mstored'[j]] /\ mgot' = [j \in MkKeys |-> mgot'[j]]
  BY <1>2, <1>4
<1>. QED
  BY <1>1, <1>3, <1>4, <1>5, <1>6, <1>7 DEF a

\* A key that is answered for the first time has no entry, and those that have one
\* keep their answer.
LEMMA NoEntryYet ==
    ASSUME MarketInv, NEW k \in MkKeys, ~Replayed(k), NEW s, KeysAnswered(s),
           \A j \in MkKeys : j # k => mstored'[j] = mstored[j]
    PROVE  /\ \A i \in DOMAIN s : s[i].key # k
           /\ \A i \in DOMAIN s : s[i].key \in MkKeys /\ mstored'[s[i].key] # Unanswered
  BY DEF Replayed, KeysAnswered

LEMMA AuditedOnce ==
    ASSUME MarketInv, NEW k \in MkKeys, ~Replayed(k), NEW object, object # "none", NEW no, Answer(k, object, no),
           NEW item, DOMAIN item = {"status", "rev", "cur"}, Audited(k, item), UNCHANGED mcopies
    PROVE  MarketInv'
<1> DEFINE e == [key |-> k, before |-> mitem.rev, after |-> mitem.rev + 1]
<1>0. /\ IsSequence(mtrail) /\ IsSequence(mcopies) /\ KeysDiffer(mcopies) /\ KeysDiffer(mtrail)
      /\ Len(mtrail) = mitem.rev /\ mitem.rev \in Nat /\ KeysAnswered(mcopies) /\ KeysAnswered(mtrail)
      /\ \A i \in DOMAIN mtrail : mtrail[i].before = i - 1 /\ mtrail[i].after = i
  BY DEF MarketInv, EachKeyOnce, KeysDiffer
<1>1. /\ DOMAIN mstored' = MkKeys /\ DOMAIN mgot' = MkKeys
      /\ mstored' = [j \in MkKeys |-> mstored'[j]] /\ mgot' = [j \in MkKeys |-> mgot'[j]]
      /\ mstored'[k] # Unanswered /\ \A j \in MkKeys : j # k => mstored'[j] = mstored[j]
      /\ \A j \in MkKeys : mgot'[j] # Unanswered => mgot'[j] = mstored'[j]
  BY Answered
<1>2. mitem'.rev = mitem.rev + 1 /\ DOMAIN mitem' = {"status", "rev", "cur"}
  BY DEF Audited
<1>3. mtrail' = Append(mtrail, e) /\ e.key = k /\ e.before = mitem.rev /\ e.after = mitem.rev + 1
  BY DEF Audited
<1>. HIDE DEF e
<1>4. /\ IsSequence(mtrail') /\ DOMAIN mtrail = 1 .. Len(mtrail) /\ Len(mtrail') = Len(mtrail) + 1
      /\ DOMAIN mtrail' = 1 .. Len(mtrail) + 1
      /\ \A i \in 1 .. Len(mtrail) : mtrail'[i] = mtrail[i]
      /\ mtrail'[Len(mtrail) + 1] = e
  BY <1>0, <1>3, Appended
<1>5. \A i \in DOMAIN mtrail' : i = Len(mtrail) + 1 \/ (i \in DOMAIN mtrail /\ mtrail'[i] = mtrail[i])
  BY <1>0, <1>4
<1>6. KeysDiffer(mtrail')
  BY <1>0, <1>1, <1>3, NoEntryYet, AnotherKey
<1>7. \A i \in DOMAIN mtrail' : mtrail'[i].before = i - 1 /\ mtrail'[i].after = i
  BY <1>0, <1>3, <1>4, <1>5
<1>8. \A i \in DOMAIN mtrail' : mtrail'[i].key \in MkKeys /\ mstored'[mtrail'[i].key] # Unanswered
  BY <1>0, <1>1, <1>3, <1>4, <1>5, NoEntryYet
<1>9. \A i \in DOMAIN mcopies' : mcopies'[i].key \in MkKeys /\ mstored'[mcopies'[i].key] # Unanswered
  BY <1>0, <1>1, NoEntryYet
<1>10. EachKeyOnce'
  BY <1>0, <1>1, <1>2, <1>4, <1>6, <1>7 DEF EachKeyOnce, KeysDiffer
<1>. QED
  BY <1>0, <1>1, <1>2, <1>4, <1>8, <1>9, <1>10 DEF MarketInv, KeysAnswered

LEMMA CopiedOnce == ASSUME MarketInv, NEW k \in MkKeys, Copy(k) PROVE MarketInv'
<1> DEFINE e == [key |-> k, ver |-> mreq[k].no]
<1>0. /\ IsSequence(mtrail) /\ IsSequence(mcopies) /\ KeysDiffer(mcopies) /\ KeysDiffer(mtrail)
      /\ KeysAnswered(mcopies) /\ KeysAnswered(mtrail) /\ ~Replayed(k)
  BY DEF MarketInv, EachKeyOnce, KeysDiffer, Copy, Fresh
<1>1. /\ DOMAIN mstored' = MkKeys /\ DOMAIN mgot' = MkKeys
      /\ mstored' = [j \in MkKeys |-> mstored'[j]] /\ mgot' = [j \in MkKeys |-> mgot'[j]]
      /\ mstored'[k] # Unanswered /\ \A j \in MkKeys : j # k => mstored'[j] = mstored[j]
      /\ \A j \in MkKeys : mgot'[j] # Unanswered => mgot'[j] = mstored'[j]
  BY <1>0, Answered DEF Copy
<1>2. mcopies' = Append(mcopies, e) /\ e.key = k /\ UNCHANGED <<mitem, mtrail>>
  BY DEF Copy
<1>. HIDE DEF e
<1>3. /\ IsSequence(mcopies') /\ DOMAIN mcopies = 1 .. Len(mcopies)
      /\ DOMAIN mcopies' = 1 .. Len(mcopies) + 1 /\ Len(mcopies) \in Nat
      /\ \A i \in 1 .. Len(mcopies) : mcopies'[i] = mcopies[i]
      /\ mcopies'[Len(mcopies) + 1] = e
  BY <1>0, <1>2, Appended
<1>4. \A i \in DOMAIN mcopies' : i = Len(mcopies) + 1 \/ (i \in DOMAIN mcopies /\ mcopies'[i] = mcopies[i])
  BY <1>3
<1>5. KeysDiffer(mcopies')
  BY <1>0, <1>1, <1>2, NoEntryYet, AnotherKey
<1>6. \A i \in DOMAIN mcopies' : mcopies'[i].key \in MkKeys /\ mstored'[mcopies'[i].key] # Unanswered
  BY <1>0, <1>1, <1>2, <1>3, <1>4, NoEntryYet
<1>7. \A i \in DOMAIN mtrail' : mtrail'[i].key \in MkKeys /\ mstored'[mtrail'[i].key] # Unanswered
  BY <1>0, <1>1, <1>2, NoEntryYet
<1>8. EachKeyOnce'
  BY <1>1, <1>2, <1>5 DEF EachKeyOnce, KeysDiffer, MarketInv
<1>. QED
  BY <1>0, <1>1, <1>2, <1>3, <1>6, <1>7, <1>8 DEF MarketInv, KeysAnswered

LEMMA MarketStep == ASSUME MarketInv, [MarketNext]_mkVars PROVE MarketInv'
<1>1. CASE UNCHANGED mkVars
  BY <1>1 DEF mkVars, MarketInv, EachKeyOnce, KeysAnswered
<1>2. ASSUME NEW k \in MkKeys, NEW req, Ask(k, req) PROVE MarketInv'
  BY <1>2 DEF Ask, MarketInv, EachKeyOnce, KeysAnswered
<1>3. ASSUME NEW k \in MkKeys, Replay(k) PROVE MarketInv'
  <2>1. /\ mgot' = [mgot EXCEPT ![k] = mstored[k]] /\ UNCHANGED <<mitem, mver, evid, mtrail, mcopies, mreq, mstored>>
    BY <1>3 DEF Replay
  <2>2. DOMAIN mgot' = MkKeys /\ mgot' = [j \in MkKeys |-> mgot'[j]]
    BY <2>1 DEF MarketInv
  <2>3. \A j \in MkKeys : mgot'[j] # Unanswered => mgot'[j] = mstored[j]
    BY <2>1 DEF MarketInv, EachKeyOnce
  <2>. QED
    BY <2>1, <2>2, <2>3 DEF MarketInv, EachKeyOnce, KeysAnswered
<1>4. ASSUME NEW k \in MkKeys,
             \/ CreateItem(k) \/ CreateVersion(k) \/ Validate(k) \/ PublishVersion(k)
             \/ Withdraw(k) \/ ImportEvidence(k) \/ ReviewEvidence(k)
      PROVE  MarketInv'
  <2>1. DOMAIN mitem = {"status", "rev", "cur"}
    BY DEF MarketInv
  <2>2. ~Replayed(k) /\ UNCHANGED mcopies
    BY <1>4 DEF CreateItem, CreateVersion, Validate, PublishVersion, Withdraw, ImportEvidence, ReviewEvidence, Fresh
  <2>3. \E object \in {"item", "version", "validated", "published", "withdrawn", "evidence", "reviewed"} : \E no : Answer(k, object, no)
    BY <1>4 DEF CreateItem, CreateVersion, Validate, PublishVersion, Withdraw, ImportEvidence, ReviewEvidence
  <2>4. \E item : DOMAIN item = {"status", "rev", "cur"} /\ Audited(k, item)
    <3>1. CASE CreateItem(k)
      BY <2>1, <3>1 DEF CreateItem
    <3>2. CASE PublishVersion(k)
      BY <2>1, <3>2 DEF PublishVersion
    <3>3. CASE Withdraw(k)
      BY <2>1, <3>3 DEF Withdraw
    <3>4. CASE CreateVersion(k) \/ Validate(k) \/ ImportEvidence(k) \/ ReviewEvidence(k)
      BY <2>1, <3>4 DEF CreateVersion, Validate, ImportEvidence, ReviewEvidence
    <3>. QED
      BY <1>4, <3>1, <3>2, <3>3, <3>4
  <2>. QED
    BY <2>2, <2>3, <2>4, AuditedOnce
<1>. QED
  BY <1>1, <1>2, <1>3, <1>4, CopiedOnce DEF MarketNext

LEMMA MarketInitInv == ASSUME MarketInit PROVE MarketInv
<1>1. <<>> \in Seq({}) /\ DOMAIN <<>> = {} /\ Len(<<>>) = 0
  OBVIOUS
<1>2. IsSequence(<<>>)
  BY <1>1 DEF IsSequence
<1>3. mitem.rev = 0 /\ DOMAIN mitem = {"status", "rev", "cur"}
  BY DEF MarketInit
<1>. QED
  BY <1>1, <1>2, <1>3 DEF MarketInit, MarketInv, EachKeyOnce, KeysAnswered

\* The snapshot of an answer is written in the transaction of the mutation
\* (strategy_market, idempotent): a request that is sent again is answered as it was,
\* copies nothing twice and leaves one entry of the audit trail, and these account for
\* every revision of the item.
THEOREM KeysActOnce == MarketSpec => []EachKeyOnce
<1>1. MarketInit => MarketInv
  BY MarketInitInv
<1>2. MarketInv /\ [MarketNext]_mkVars => MarketInv'
  BY MarketStep
<1>3. MarketInv => EachKeyOnce
  BY DEF MarketInv
<1>. QED
  BY <1>1, <1>2, <1>3, PTL DEF MarketSpec

----------------------------------------------------------------------------
(***************************************************************************)
(* MarketData: what is final stays final.                                  *)
(***************************************************************************)

\* A series stored or fetched on a day: one bar per session, and only the bar of
\* that day itself may still change.
SeriesAt(B, day) ==
    /\ IsFiniteSet(B)
    /\ \A b \in B : b.t \in 1 .. day /\ Trading(b.t) /\ (~b.final => b.t = day)
    /\ \A b, c \in B : b.t = c.t => b = c
    /\ \A b \in B : DOMAIN b = {"t", "from", "final", "by", "adj"}

SnapOK(s, clock) ==
    /\ DOMAIN s = {"key", "bars", "latest", "rows"}
    /\ s.latest = finalCompleteDate(s.bars)
    /\ \E day \in 1 .. clock : SeriesAt(s.bars, day)

\* What a call holds is a series of today: a snapshot that is fresh has no other
\* open bar, and a call does not last into the next day.
CallOK(call, snaps, clock) ==
    /\ call.at \in {"idle", "read", "fetch", "store", "rows"}
    /\ call.at # "idle" => DOMAIN call = {"at", "key", "for", "snap", "bars"}
    /\ call.at \in {"read", "rows"} => call.snap \in DOMAIN snaps
    /\ call.at = "read" => SeriesAt(snaps[call.snap].bars, clock)
    /\ call.at \in {"store", "rows"} => SeriesAt(call.bars, clock)

DataInv ==
    /\ mday \in 1 .. MaxDays
    /\ IsSequence(msnaps) /\ \A i \in DOMAIN msnaps : SnapOK(msnaps[i], mday)
    /\ DOMAIN mload = Loaders /\ \A l \in Loaders : CallOK(mload[l], msnaps, mday)
    /\ FinalBarsStay

----------------------------------------------------------------------------
\* Among sets of subsets of a finite set there is always a smallest one, and so
\* a bounded set of numbers has a greatest one.
LEMMA SmallestSubset ==
    ASSUME NEW S, IsFiniteSet(S), NEW T, T \subseteq SUBSET S, T # {}
    PROVE  \E X \in T : \A Y \in T : ~(Y \subseteq X /\ Y # X)
<1>1. T \subseteq FiniteSubsetsOf(S)
  BY FS_Subset DEF FiniteSubsetsOf
<1>2. PICK X \in T : \A Y \in T : <<Y, X>> \notin StrictSubsetOrdering(S)
  BY <1>1, FS_StrictSubsetOrderingWellFounded, WFMin
<1>. QED
  BY <1>2 DEF StrictSubsetOrdering

LEMMA GreatestOf ==
    ASSUME NEW n \in Nat, NEW S, S \subseteq 0 .. n, S # {}
    PROVE  \E i \in S : \A j \in S : i >= j
<1> DEFINE D == 0 .. n
           From(i) == {j \in S : j >= i}
           T == {From(i) : i \in S}
<1>a. IsFiniteSet(D)
  BY FS_Interval
<1>1. T \subseteq SUBSET D /\ T # {}
  OBVIOUS
<1>2. PICK X \in T : \A Y \in T : ~(Y \subseteq X /\ Y # X)
  <2>. HIDE DEF T, D
  <2>. QED
    BY <1>a, <1>1, SmallestSubset
<1>3. PICK i \in S : X = From(i)
  OBVIOUS
<1>4. ASSUME NEW j \in S, ~(i >= j) PROVE FALSE
  <2>1. i \in Int /\ j \in Int /\ \A k \in S : k \in Int
    OBVIOUS
  <2>2. j >= i /\ j # i /\ \A k \in S : k >= j => k >= i
    BY <1>4, <2>1
  <2>3. i \in X /\ i \notin From(j)
    BY <1>3, <1>4, <2>1
  <2>4. From(j) \subseteq X /\ From(j) \in T
    BY <1>3, <2>2
  <2>. QED
    BY <1>2, <2>3, <2>4
<1>. QED
  BY <1>4

LEMMA MaxIs ==
    ASSUME NEW n \in Nat, NEW S, S \subseteq 0 .. n, S # {}
    PROVE  Max(S) \in S /\ \A j \in S : Max(S) >= j
<1>1. \E i \in S : \A j \in S : i >= j
  BY GreatestOf
<1>. QED
  BY <1>1 DEF Max

\* A series that is not empty has a last bar.
LEMMA LastBarIs ==
    ASSUME NEW B, NEW n \in Nat, \A b \in B : b.t \in 0 .. n, B # {}
    PROVE  LastBar(B) \in B /\ \A c \in B : c.t <= LastBar(B).t
<1> DEFINE S == {b.t : b \in B}
<1>1. S \subseteq 0 .. n /\ S # {}
  OBVIOUS
<1>2. PICK i \in S : \A j \in S : i >= j
  <2>. HIDE DEF S
  <2>. QED
    BY <1>1, GreatestOf
<1>3. PICK b \in B : b.t = i
  OBVIOUS
<1>4. \A c \in B : c.t \in Int /\ c.t \in S
  OBVIOUS
<1>5. \A c \in B : c.t <= b.t
  BY <1>2, <1>3, <1>4
<1>6. \E x \in B : \A c \in B : c.t <= x.t
  BY <1>5
<1>. QED
  BY <1>6 DEF LastBar

\* Bars of different days, of which there are finitely many, are finitely many.
LEMMA FewBars ==
    ASSUME NEW B, NEW n \in Nat, \A b \in B : b.t \in 1 .. n, \A b, c \in B : b.t = c.t => b = c
    PROVE  IsFiniteSet(B)
<1> DEFINE S == {b.t : b \in B}
           f == [d \in S |-> CHOOSE b \in B : b.t = d]
<1>1. IsFiniteSet(S)
  <2>1. S \in SUBSET (1 .. n) /\ IsFiniteSet(1 .. n)
    BY FS_Interval
  <2>. QED
    BY <2>1, FS_Subset
<1>2. \A b \in B : f[b.t] = b /\ b.t \in S
  OBVIOUS
<1>3. f \in Surjection(S, B)
  <2>1. \A d \in S : f[d] \in B
    BY <1>2
  <2>2. f \in [S -> B]
    BY <2>1
  <2>. HIDE DEF S, f
  <2>. QED
    BY <1>2, <2>2 DEF Surjection
<1>. HIDE DEF S, f
<1>. QED
  BY <1>1, <1>3, FS_Surjection

LEMMA SomeOfASeries ==
    ASSUME NEW B, NEW day, SeriesAt(B, day), NEW C, C \subseteq B
    PROVE  SeriesAt(C, day)
  BY FS_Subset DEF SeriesAt

----------------------------------------------------------------------------
\* The calendar: a session before today is complete.
LEMMA EarlierIsComplete ==
    ASSUME mday \in 1 .. MaxDays
    PROVE  /\ LastCompleteSession \in 0 .. mday
           /\ \A e \in 1 .. mday - 1 : Trading(e) => e <= LastCompleteSession
<1> DEFINE S == {0} \cup {e \in 1 .. (mday - 1) : Trading(e)}
<1>0. mday \in Nat /\ mday >= 1
  BY DataAssumption
<1>1. S \subseteq 0 .. mday /\ S # {}
  BY <1>0
<1>2. PrevTradingDay(mday) \in S /\ \A e \in S : PrevTradingDay(mday) >= e
  <2>1. PrevTradingDay(mday) = Max(S)
    BY DEF PrevTradingDay
  <2>. HIDE DEF S
  <2>. QED
    BY <1>0, <1>1, <2>1, MaxIs
<1>3. PrevTradingDay(mday) \in 0 .. mday /\ \A e \in 1 .. mday - 1 : Trading(e) => e <= PrevTradingDay(mday)
  BY <1>0, <1>2
<1>4. CASE mclosed /\ Trading(mday)
  BY <1>0, <1>4 DEF LastCompleteSession
<1>5. CASE ~(mclosed /\ Trading(mday))
  BY <1>3, <1>5 DEF LastCompleteSession
<1>. QED
  BY <1>4, <1>5

LEMMA DailyIsASeries ==
    ASSUME mday \in 1 .. MaxDays, NEW days, days \subseteq Sessions, NEW adj
    PROVE  SeriesAt(DailyOf(days, adj), mday)
<1>0. mday \in Nat /\ days \subseteq 1 .. mday /\ \A d \in days : Trading(d)
  BY DataAssumption DEF Sessions
<1> DEFINE F(d) == Bar(d, d, d <= LastCompleteSession, "feed", adj)
<1>1. DailyOf(days, adj) = {F(d) : d \in days}
  BY DEF DailyOf
<1>2. \A d \in days : /\ F(d).t = d /\ F(d).final = (d <= LastCompleteSession)
                     /\ DOMAIN F(d) = {"t", "from", "final", "by", "adj"}
  BY DEF Bar
<1>5. \A d \in days : ~(d <= LastCompleteSession) => d = mday
  BY <1>0, EarlierIsComplete
<1>. HIDE DEF F
<1>6. /\ \A b \in DailyOf(days, adj) : /\ b.t \in 1 .. mday /\ Trading(b.t) /\ (~b.final => b.t = mday)
                                       /\ DOMAIN b = {"t", "from", "final", "by", "adj"}
      /\ \A b, c \in DailyOf(days, adj) : b.t = c.t => b = c
  <2>1. \A b \in DailyOf(days, adj) : \E d \in days : b = F(d)
    BY <1>1
  <2>2. ASSUME NEW b \in DailyOf(days, adj)
        PROVE  /\ b.t \in 1 .. mday /\ Trading(b.t) /\ (~b.final => b.t = mday)
               /\ DOMAIN b = {"t", "from", "final", "by", "adj"}
    <3>1. PICK d \in days : b = F(d)
      BY <2>1
    <3>2. b.t = d /\ b.final = (d <= LastCompleteSession) /\ DOMAIN b = {"t", "from", "final", "by", "adj"}
      BY <1>2, <3>1
    <3>. QED
      BY <1>0, <1>5, <3>2
  <2>3. \A d \in days : F(d).t = d
    BY <1>2
  <2>4. ASSUME NEW b \in DailyOf(days, adj), NEW c \in DailyOf(days, adj), b.t = c.t PROVE b = c
    BY <2>1, <2>3, <2>4
  <2>. QED
    BY <2>2, <2>4
<1>. QED
  BY <1>0, <1>6, FewBars DEF SeriesAt

LEMMA FeedsAreSessions == \A days \in Feeds : days \subseteq Sessions
  BY DEF Feeds, NoBars

LEMMA AdapterIsASeries ==
    ASSUME mday \in 1 .. MaxDays, NEW first \in Feeds, NEW second \in Feeds, NEW third \in Feeds, NEW adj
    PROVE  SeriesAt(AdapterBars(first, second, third, adj), mday)
  BY DailyIsASeries, FeedsAreSessions DEF AdapterBars, barsFromGtimg, barsFromSina

\* A week ends with its last session, and is open as long as this is.
LEMMA WeeksAreASeries ==
    ASSUME NEW B, NEW day \in Nat, SeriesAt(B, day)
    PROVE  SeriesAt(aggregate(B), day)
<1> DEFINE In(w) == {c \in B : Week(c.t) = w}
           Ws == {Week(b.t) : b \in B}
           F(w) == Bar(LastBar(In(w)).t, (CHOOSE b \in In(w) : \A c \in In(w) : b.t <= c.t).t,
                       LastBar(In(w)).final, "feed", (CHOOSE b \in In(w) : \A c \in In(w) : b.t <= c.t).adj)
<1>1. aggregate(B) = {F(w) : w \in Ws}
  BY DEF aggregate
<1>2. \A w \in Ws : /\ F(w).t = LastBar(In(w)).t /\ F(w).final = LastBar(In(w)).final
                   /\ DOMAIN F(w) = {"t", "from", "final", "by", "adj"}
  BY DEF Bar
<1>3. ASSUME NEW w \in Ws PROVE LastBar(In(w)) \in B /\ Week(LastBar(In(w)).t) = w
  <2>1. \A b \in In(w) : b.t \in 0 .. day
    BY DEF SeriesAt
  <2>2. In(w) # {}
    OBVIOUS
  <2>3. LastBar(In(w)) \in In(w)
    <3>. HIDE DEF In
    <3>. QED
      BY <2>1, <2>2, LastBarIs
  <2>. QED
    BY <2>3
<1>. HIDE DEF F, Ws, In
<1>5. \A w \in Ws : F(w).t \in 1 .. day /\ Trading(F(w).t) /\ (~F(w).final => F(w).t = day)
  BY <1>2, <1>3 DEF SeriesAt
<1>6. \A v, w \in Ws : F(v).t = F(w).t => F(v) = F(w)
  <2> SUFFICES ASSUME NEW v \in Ws, NEW w \in Ws, F(v).t = F(w).t PROVE v = w
    OBVIOUS
  <2>. QED
    BY <1>2, <1>3
<1>7. /\ \A b \in aggregate(B) : /\ b.t \in 1 .. day /\ Trading(b.t) /\ (~b.final => b.t = day)
                                  /\ DOMAIN b = {"t", "from", "final", "by", "adj"}
      /\ \A b, c \in aggregate(B) : b.t = c.t => b = c
  <2>1. \A b \in aggregate(B) : \E w \in Ws : b = F(w)
    BY <1>1
  <2>. QED
    BY <1>2, <1>5, <1>6, <2>1
<1>. QED
  BY <1>7, FewBars DEF SeriesAt

LEMMA FetchedIsASeries ==
    ASSUME mday \in 1 .. MaxDays, NEW first \in Feeds, NEW second \in Feeds, NEW third \in Feeds, NEW adj, NEW key
    PROVE  SeriesAt(SeriesOf(AdapterBars(first, second, third, adj), key), mday)
<1>1. mday \in Nat
  BY DataAssumption
<1>. QED
  BY <1>1, AdapterIsASeries, WeeksAreASeries DEF SeriesOf

----------------------------------------------------------------------------
\* The date of the newest final bar.
LEMMA NewestFinal ==
    ASSUME NEW B, NEW day \in Nat, SeriesAt(B, day)
    PROVE  /\ \A b \in B : b.final => b.t <= finalCompleteDate(B)
           /\ finalCompleteDate(B) # 0 => \E b \in B : b.final /\ b.t = finalCompleteDate(B)
           /\ finalCompleteDate(B) \in Nat
<1> DEFINE S == {0} \cup {b.t : b \in {c \in B : c.final}}
<1>1. finalCompleteDate(B) = Max(S)
  BY DEF finalCompleteDate
<1>2. S \subseteq 0 .. day /\ S # {}
  BY DEF SeriesAt
<1>3. Max(S) \in S /\ \A j \in S : Max(S) >= j
  <2>. HIDE DEF S
  <2>. QED
    BY <1>2, MaxIs
<1>4. \A j \in S : j \in Nat
  BY <1>2
<1>. QED
  BY <1>1, <1>3, <1>4

\* A snapshot that is fresh has no open bar but today's.
LEMMA FreshIsOfToday ==
    ASSUME mday \in 1 .. MaxDays, NEW s, SnapOK(s, mday), snapshotFresh(s)
    PROVE  SeriesAt(s.bars, mday)
<1>0. mday \in Nat
  BY DataAssumption
<1>1. PICK day \in 1 .. mday : SeriesAt(s.bars, day)
  BY DEF SnapOK
<1>2. CASE day = mday
  BY <1>1, <1>2
<1>3. CASE day # mday
  <2>1. day \in 1 .. mday - 1 /\ day \in Nat
    BY <1>0, <1>3
  <2>2. ASSUME NEW b \in s.bars, ~b.final PROVE FALSE
    <3>1. b.t = day /\ Trading(day)
      BY <1>1, <2>2 DEF SeriesAt
    <3>2. day <= LastCompleteSession /\ LastCompleteSession \in Nat
      BY <1>0, <2>1, <3>1, EarlierIsComplete
    <3>3. LastCompleteSession <= finalCompleteDate(s.bars) /\ finalCompleteDate(s.bars) # 0
      BY <3>2 DEF snapshotFresh, SnapOK
    <3>4. PICK c \in s.bars : c.final /\ c.t = finalCompleteDate(s.bars)
      BY <1>1, <2>1, <3>3, NewestFinal
    <3>5. c.t \in 1 .. day /\ c.t >= day
      BY <1>1, <2>1, <3>2, <3>3, <3>4 DEF SeriesAt
    <3>6. c.t = b.t
      BY <2>1, <3>1, <3>5
    <3>. QED
      BY <1>1, <2>2, <3>4, <3>6 DEF SeriesAt
  <2>3. \A b \in s.bars : b.t \in 1 .. day => b.t \in 1 .. mday
    BY <1>0
  <2>. QED
    BY <1>1, <2>2, <2>3 DEF SeriesAt
<1>. QED
  BY <1>2, <1>3

LEMMA AllStored ==
    ASSUME NEW s, IsFiniteSet(s.bars), s.rows = Cardinality(s.bars)
    PROVE  Stored(s) = s.bars
<1>1. ASSUME NEW b \in s.bars PROVE Cardinality({c \in s.bars : c.t <= b.t}) <= s.rows
  <2>1. {c \in s.bars : c.t <= b.t} \subseteq s.bars
    OBVIOUS
  <2>. QED
    BY <2>1, FS_Subset
<1>. QED
  BY <1>1 DEF Stored

LEMMA DataInvIsFresh == ASSUME DataInv PROVE FreshIsComplete
<1> SUFFICES ASSUME NEW i \in DOMAIN msnaps, snapshotFresh(msnaps[i]),
                    msnaps[i].rows = Cardinality(msnaps[i].bars)
             PROVE  \E b \in Stored(msnaps[i]) : b.final /\ b.t >= LastCompleteSession
  BY DEF FreshIsComplete
<1> DEFINE s == msnaps[i]
<1>1. SnapOK(s, mday) /\ mday \in Nat /\ mday \in 1 .. MaxDays
  BY DataAssumption DEF DataInv
<1>. HIDE DEF s
<1>2. PICK day \in 1 .. mday : SeriesAt(s.bars, day)
  BY <1>1 DEF SnapOK
<1>3. day \in Nat
  BY <1>1
<1>4. finalCompleteDate(s.bars) # 0 /\ finalCompleteDate(s.bars) >= LastCompleteSession
  BY <1>1 DEF SnapOK, snapshotFresh, s
<1>5. PICK b \in s.bars : b.final /\ b.t = finalCompleteDate(s.bars)
  BY <1>2, <1>3, <1>4, NewestFinal
<1>6. Stored(s) = s.bars
  BY <1>2, AllStored DEF SeriesAt, s
<1>7. b \in Stored(s) /\ b.final /\ b.t >= LastCompleteSession
  BY <1>4, <1>5, <1>6
<1>. QED
  BY <1>7 DEF s

----------------------------------------------------------------------------
\* A series as it is shown: the quote is laid over it, its final bars stay.
Shown(S, B) ==
    /\ IsFiniteSet(S)
    /\ \A b \in S : b.t \in Nat /\ b.t <= mday
    /\ \A b, c \in S : b.t = c.t => b = c
    /\ \A b \in S : ~b.final => \A c \in S : c.t <= b.t
    /\ \A b \in B : b.final => b \in S

LEMMA QuoteLaidOver ==
    ASSUME mday \in 1 .. MaxDays, NEW B, SeriesAt(B, mday), NEW q \in 0 .. (mday + 1)
    PROVE  Shown(applyIntrabar(B, q), B) /\ Shown(B, B)
<1> DEFINE d == intrabarDay(q)
           new == intrabarFromQuote(d)
           last == LastBar(B)
<1>0. mday \in Nat /\ mday >= 1 /\ \A b \in B : b.t \in 0 .. mday /\ b.t \in Nat /\ b.t <= mday
  BY DataAssumption DEF SeriesAt
<1>1. Shown(B, B)
  BY <1>0 DEF Shown, SeriesAt
<1>2. d \in Nat /\ d <= mday
  BY <1>0 DEF intrabarDay
<1>3. new.t = d /\ ~new.final
  BY DEF intrabarFromQuote, Bar
<1>4. B # {} => last \in B /\ \A c \in B : c.t <= last.t
  BY <1>0, LastBarIs
<1>5. \/ applyIntrabar(B, q) = B
      \/ B = {} /\ applyIntrabar(B, q) = {new}
      \/ B # {} /\ d > last.t /\ applyIntrabar(B, q) = B \cup {new}
      \/ B # {} /\ ~last.final /\ applyIntrabar(B, q) = (B \ {last}) \cup {[last EXCEPT !.by = "quote"]}
  BY <1>0, <1>2, <1>4 DEF applyIntrabar, NoBars
<1>6. CASE applyIntrabar(B, q) = B
  BY <1>1, <1>6
<1>7. CASE B = {} /\ applyIntrabar(B, q) = {new}
  <2>1. IsFiniteSet({new})
    BY FS_Singleton
  <2>. HIDE DEF new, d, last
  <2>. QED
    BY <1>1, <1>2, <1>3, <1>7, <2>1 DEF Shown
<1>8. CASE B # {} /\ d > last.t /\ applyIntrabar(B, q) = B \cup {new}
  <2>1. IsFiniteSet(B \cup {new})
    BY FS_AddElement DEF SeriesAt
  <2>. HIDE DEF new, d, last
  <2>2. \A b \in B : b.t < d
    BY <1>0, <1>2, <1>4, <1>8
  <2>3. \A b \in B : b.final
    BY <1>0, <1>2, <2>2 DEF SeriesAt
  <2>4. \A b \in B \cup {new} : b.t \in Nat /\ b.t <= mday /\ (b \in B \/ b = new)
    BY <1>0, <1>2, <1>3
  <2>5. \A b, c \in B \cup {new} : b.t = c.t => b = c
    BY <1>0, <1>2, <1>3, <2>2 DEF SeriesAt
  <2>6. \A b \in B \cup {new} : ~b.final => \A c \in B \cup {new} : c.t <= b.t
    BY <1>0, <1>2, <1>3, <2>2, <2>3
  <2>. QED
    <3>1. Shown(B \cup {new}, B)
      BY <2>1, <2>4, <2>5, <2>6 DEF Shown
    <3>. QED
      BY <1>1, <1>8, <3>1, Zenon
<1>9. CASE B # {} /\ ~last.final /\ applyIntrabar(B, q) = (B \ {last}) \cup {[last EXCEPT !.by = "quote"]}
  <2> DEFINE e == [last EXCEPT !.by = "quote"]
  <2>1. e.t = last.t /\ ~e.final
    <3>1. DOMAIN last = {"t", "from", "final", "by", "adj"}
      BY <1>9, <1>4 DEF SeriesAt
    <3>. HIDE DEF last
    <3>. QED
      BY <1>9, <3>1
  <2>. HIDE DEF e
  <2>2. IsFiniteSet((B \ {last}) \cup {e})
    BY FS_AddElement, FS_Subset DEF SeriesAt
  <2>3. last \in B /\ last.t \in Nat /\ last.t <= mday /\ \A c \in B : c.t <= last.t
    BY <1>0, <1>4, <1>9
  <2>. HIDE DEF new, d, last
  <2>4. \A b \in (B \ {last}) \cup {e} : b.t \in Nat /\ b.t <= mday /\ b.t <= last.t
    BY <1>0, <2>1, <2>3
  <2>5. \A b \in B : b # last => b.final /\ b.t # last.t
    BY <1>9, <2>3 DEF SeriesAt
  <2>6. \A b, c \in (B \ {last}) \cup {e} : b.t = c.t => b = c
    BY <2>1, <2>5 DEF SeriesAt
  <2>7. \A b \in (B \ {last}) \cup {e} : ~b.final => b = e
    BY <2>5
  <2>8. \A b \in B : b.final => b \in (B \ {last}) \cup {e}
    BY <1>9
  <2>. QED
    <3>1. Shown((B \ {last}) \cup {e}, B)
      BY <2>1, <2>2, <2>4, <2>6, <2>7, <2>8 DEF Shown
    <3>2. applyIntrabar(B, q) = (B \ {last}) \cup {e}
      BY <1>9 DEF e
    <3>. QED
      BY <1>1, <3>1, <3>2, Zenon
<1>. QED
  BY <1>1, <1>5, <1>6, <1>7, <1>8, <1>9

\* The page that is answered: what is newest of it.
LEMMA PageKeepsFinals ==
    ASSUME NEW S, NEW B, Shown(S, B), mday \in Nat
    PROVE  /\ \A b \in S : (\E c \in Newest(S, PageLimit) : c.t <= b.t) => b \in Newest(S, PageLimit)
           /\ \A b \in Newest(S, PageLimit) : ~b.final => b = LastBar(Newest(S, PageLimit))
           /\ \A b, c \in Newest(S, PageLimit) : b.t = c.t => b = c
<1> DEFINE N == Newest(S, PageLimit)
           From(b) == {c \in S : c.t >= b.t}
<1>0. /\ IsFiniteSet(S) /\ N \subseteq S /\ \A b \in S : b.t \in Nat /\ b.t \in 0 .. mday
      /\ \A b, c \in S : b.t = c.t => b = c
      /\ \A b \in S : ~b.final => \A c \in S : c.t <= b.t
  BY DEF Shown, Newest
<1>1. \A b \in S : b \in N <=> Cardinality(From(b)) <= PageLimit
  BY DEF Newest
<1>2. \A b \in S : IsFiniteSet(From(b)) /\ Cardinality(From(b)) \in Nat
  BY <1>0, FS_Subset, FS_CardinalityType
<1>3. ASSUME NEW b \in S, NEW c \in N, c.t <= b.t PROVE b \in N
  <2>1. c \in S /\ From(b) \subseteq From(c)
    BY <1>0, <1>3
  <2>. HIDE DEF From, N
  <2>2. Cardinality(From(b)) <= Cardinality(From(c))
    BY <1>2, <2>1, FS_Subset
  <2>3. Cardinality(From(c)) <= PageLimit /\ PageLimit \in Nat
    BY <1>1, <1>3, <2>1, DataAssumption
  <2>4. Cardinality(From(b)) <= PageLimit
    BY <1>2, <2>1, <2>2, <2>3
  <2>. QED
    BY <1>1, <2>4
<1>4. ASSUME NEW b \in N, ~b.final PROVE b = LastBar(N)
  <2>. HIDE DEF From, N
  <2>1. LastBar(N) \in N /\ \A c \in N : c.t <= LastBar(N).t
    BY <1>0, LastBarIs
  <2>2. b.t <= LastBar(N).t /\ LastBar(N).t <= b.t /\ b.t \in Nat /\ LastBar(N).t \in Nat
    BY <1>0, <1>4, <2>1
  <2>3. b.t = LastBar(N).t
    BY <2>2
  <2>. QED
    BY <1>0, <2>1, <2>3
<1>. QED
  BY <1>0, <1>3, <1>4

LEMMA SeriesAnswerHolds ==
    ASSUME mday \in 1 .. MaxDays, NEW rows, SeriesAt(rows, mday), NEW key, NEW i, NEW latest,
           NEW q \in 0 .. (mday + 1), NEW cut, mans' = SeriesAnswer(key, i, rows, latest, q, cut)
    PROVE  FinalBarsStay'
<1> DEFINE upTo == {b \in rows : b.t < cut}
           shown == IF cut = NoCursor THEN applyIntrabar(upTo, q) ELSE upTo
<1>0. mday \in Nat
  BY DataAssumption
<1>1. SeriesAt(upTo, mday)
  BY SomeOfASeries
<1>2. mans'.rows = rows /\ mans'.cut = cut /\ mans'.bars = Newest(shown, PageLimit)
  BY DEF SeriesAnswer
<1>3. \A b \in rows : b.t < cut => b \in upTo
  OBVIOUS
<1>. HIDE DEF upTo
<1>4. Shown(shown, upTo)
  BY <1>1, QuoteLaidOver
<1>. HIDE DEF shown
<1>5. /\ \A b \in shown : (\E c \in mans'.bars : c.t <= b.t) => b \in mans'.bars
      /\ \A b \in mans'.bars : ~b.final => b = LastBar(mans'.bars)
      /\ \A b, c \in mans'.bars : b.t = c.t => b = c
  BY <1>0, <1>2, <1>4, PageKeepsFinals
<1>6. \A b \in rows : b.final /\ b.t < cut => b \in shown
  BY <1>3, <1>4 DEF Shown
<1>7. LastBar(mans'.bars) = LastBar(mans.bars)'
  BY DEF LastBar
<1>. QED
  BY <1>2, <1>5, <1>6, <1>7 DEF FinalBarsStay

----------------------------------------------------------------------------
\* The other answers are no series.
LEMMA NoSeriesShown == ASSUME mans'.by # "series" PROVE FinalBarsStay'
  BY DEF FinalBarsStay

LEMMA QuotesAreQuotes ==
    /\ DOMAIN cachedClose = {"by", "day", "final", "basis"} /\ cachedClose.by = "quote"
    /\ markStale(cachedClose).by = "quote"
    /\ \A q : markStale([by |-> "quote", day |-> q, final |-> FALSE, basis |-> "last"]).by = "quote"
<1>1. DOMAIN cachedClose = {"by", "day", "final", "basis"} /\ cachedClose.by = "quote"
  BY DEF cachedClose, NoQuote, closeQuote
<1>2. ASSUME NEW r, NEW day, DOMAIN r = {"by", "day", "final", "basis"}, r.by = "quote"
      PROVE  [r EXCEPT !.basis = "daily_close", !.day = day].by = "quote"
  BY <1>2
<1>3. ASSUME NEW r, DOMAIN r = {"by", "day", "final", "basis"}, r.by = "quote" PROVE markStale(r).by = "quote"
  <2>1. PICK day : day = cachedClose.day
    OBVIOUS
  <2>. QED
    BY <1>2, <1>3, <2>1 DEF markStale
<1>4. ASSUME NEW q
      PROVE  markStale([by |-> "quote", day |-> q, final |-> FALSE, basis |-> "last"]).by = "quote"
  <2>1. PICK r : r = [by |-> "quote", day |-> q, final |-> FALSE, basis |-> "last"]
    OBVIOUS
  <2>2. DOMAIN r = {"by", "day", "final", "basis"} /\ r.by = "quote"
    BY <2>1
  <2>. QED
    BY <1>3, <2>1, <2>2
<1>. QED
  BY <1>1, <1>3, <1>4

\* Snapshots are added and their rows counted; their series stay as they are.
LEMMA CallKept ==
    ASSUME NEW call, NEW S, NEW T, NEW clock, CallOK(call, S, clock),
           \A i \in DOMAIN S : i \in DOMAIN T /\ T[i].bars = S[i].bars
    PROVE  CallOK(call, T, clock)
  BY DEF CallOK

LEMMA NewestSnapshot ==
    ASSUME IsSequence(msnaps), NEW key, SnapsOf(key) # {}
    PROVE  Max(SnapsOf(key)) \in DOMAIN msnaps
<1>1. PICK S : msnaps \in Seq(S)
  BY DEF IsSequence
<1>2. Len(msnaps) \in Nat /\ SnapsOf(key) \subseteq 0 .. Len(msnaps)
  BY <1>1 DEF SnapsOf
<1>3. Max(SnapsOf(key)) \in SnapsOf(key)
  BY <1>2, MaxIs
<1>. QED
  BY <1>3 DEF SnapsOf

LEMMA IdleIsOK == \A snaps, clock : CallOK(Waiting, snaps, clock)
  BY DEF CallOK, Waiting

\* A call that looks reads a snapshot of today or asks the provider.
LEMMA LookKeepsInv ==
    ASSUME DataInv, NEW l \in Loaders, NEW key, NEW for, Look(l, key, for)
    PROVE  DataInv'
<1> DEFINE mine == SnapsOf(key)
           hit == mine # {} /\ snapshotFresh(msnaps[Max(mine)])
<1>1. PICK at, snap : /\ at = (IF hit THEN "read" ELSE "fetch")
                      /\ snap = (IF hit THEN Max(mine) ELSE 0)
  OBVIOUS
<1>2. /\ mload' = [mload EXCEPT ![l] = [at |-> at, key |-> key, for |-> for, snap |-> snap, bars |-> NoBars]]
      /\ mans' = NoSeriesAnswer /\ UNCHANGED <<mday, mclosed, msnaps, mread>>
  BY <1>1 DEF Look
<1>3. at = "read" => snap \in DOMAIN msnaps /\ SeriesAt(msnaps[snap].bars, mday)
  <2>. SUFFICES ASSUME at = "read" PROVE snap \in DOMAIN msnaps /\ SeriesAt(msnaps[snap].bars, mday)
    OBVIOUS
  <2>1. mine # {} /\ snap = Max(mine) /\ snapshotFresh(msnaps[snap])
    BY <1>1
  <2>2. snap \in DOMAIN msnaps
    BY <2>1, NewestSnapshot DEF DataInv
  <2>. QED
    BY <2>1, <2>2, FreshIsOfToday DEF DataInv
<1>4. at \in {"read", "fetch"}
  BY <1>1
<1>5. PICK call : call = [at |-> at, key |-> key, for |-> for, snap |-> snap, bars |-> NoBars]
  OBVIOUS
<1>6. CallOK(call, msnaps, mday)
  BY <1>3, <1>4, <1>5 DEF CallOK
<1>7. mload' = [mload EXCEPT ![l] = call]
  BY <1>2, <1>5
<1>8. FinalBarsStay'
  BY <1>2, NoSeriesShown DEF NoSeriesAnswer
<1>. QED
  BY <1>2, <1>6, <1>7, <1>8 DEF DataInv

\* A call that gets a series answers with it and is over.
LEMMA ServeAnswers ==
    ASSUME DataInv, NEW l \in Loaders, NEW i, NEW rows, Serve(l, i, rows), SeriesAt(rows, mday)
    PROVE  FinalBarsStay' /\ mload' = [mload EXCEPT ![l] = Waiting]
<1>1. PICK latest : latest = msnaps[i].latest
  OBVIOUS
<1>2. mans' \in AnswerOf(mload[l], i, rows, latest) /\ mday \in 1 .. MaxDays
  BY <1>1 DEF Serve, DataInv
<1>3. CASE mload[l].for = "series"
  <2>1. PICK q \in 0 .. (mday + 1), cut \in 2 .. NoCursor :
            mans' = SeriesAnswer(mload[l].key, i, rows, latest, q, cut)
    BY <1>2, <1>3 DEF AnswerOf
  <2>2. PICK key : key = mload[l].key
    OBVIOUS
  <2>. QED
    BY <1>2, <2>1, <2>2, SeriesAnswerHolds DEF Serve
<1>4. CASE mload[l].for # "series"
  <2>1. mans'.by = "quote"
    BY <1>2, <1>4 DEF AnswerOf, NoQuote, closeQuote
  <2>. QED
    BY <2>1, NoSeriesShown DEF Serve
<1>. QED
  BY <1>3, <1>4

LEMMA Replaced ==
    ASSUME NEW s, IsSequence(s), NEW i \in DOMAIN s, NEW e
    PROVE  IsSequence([s EXCEPT ![i] = e]) /\ DOMAIN [s EXCEPT ![i] = e] = DOMAIN s
<1>1. PICK S : s \in Seq(S)
  BY DEF IsSequence
<1>2. [s EXCEPT ![i] = e] \in Seq(S \cup {e})
  BY <1>1
<1>. QED
  BY <1>2 DEF IsSequence

LEMMA DataInitInv == ASSUME DataInit PROVE DataInv
<1>1. 1 \in 1 .. MaxDays
  BY DataAssumption
<1>2. <<>> \in Seq({}) /\ DOMAIN <<>> = {}
  OBVIOUS
<1>3. IsSequence(msnaps) /\ DOMAIN msnaps = {}
  BY <1>2 DEF IsSequence, DataInit
<1>4. FinalBarsStay
  BY DEF FinalBarsStay, DataInit, NoSeriesAnswer
<1>. QED
  BY <1>1, <1>3, <1>4, IdleIsOK DEF DataInit, DataInv

LEMMA ReadRowsKeepsInv == ASSUME DataInv, NEW l \in Loaders, ReadRows(l) PROVE DataInv'
<1>1. PICK i, rows : i = mload[l].snap /\ rows = Stored(msnaps[i])
  OBVIOUS
<1>2. Serve(l, i, rows) /\ UNCHANGED <<mday, mclosed, msnaps>> /\ mload[l].at = "read"
  BY <1>1 DEF ReadRows
<1>3. SeriesAt(rows, mday)
  <2>1. SeriesAt(msnaps[i].bars, mday)
    BY <1>1, <1>2 DEF DataInv, CallOK
  <2>2. rows \subseteq msnaps[i].bars
    BY <1>1 DEF Stored
  <2>. QED
    BY <2>1, <2>2, SomeOfASeries
<1>. QED
  BY <1>2, <1>3, ServeAnswers, IdleIsOK DEF DataInv

LEMMA FetchKeepsInv == ASSUME DataInv, NEW l \in Loaders, Fetch(l) PROVE DataInv'
<1>1. PICK call : call = mload[l]
  OBVIOUS
<1>2. PICK first \in Feeds, second \in Feeds, third \in Feeds :
          mload' = [mload EXCEPT ![l] =
              IF AdapterBars(first, second, third, call.key[2]) = NoBars THEN Waiting
              ELSE [call EXCEPT !.at = "store",
                                !.bars = SeriesOf(AdapterBars(first, second, third, call.key[2]), call.key)]]
  BY <1>1 DEF Fetch
<1>3. PICK B : B = SeriesOf(AdapterBars(first, second, third, call.key[2]), call.key)
  OBVIOUS
<1>4. SeriesAt(B, mday)
  BY <1>3, FetchedIsASeries DEF DataInv
<1>5. PICK next : next = IF AdapterBars(first, second, third, call.key[2]) = NoBars THEN Waiting
                         ELSE [call EXCEPT !.at = "store", !.bars = B]
  OBVIOUS
<1>6. mload' = [mload EXCEPT ![l] = next]
  BY <1>2, <1>3, <1>5
<1>7. call.at = "fetch" /\ DOMAIN call = {"at", "key", "for", "snap", "bars"}
  BY <1>1 DEF Fetch, DataInv, CallOK
<1>8. CallOK(next, msnaps, mday)
  <2>1. CASE next = Waiting
    BY <2>1, IdleIsOK
  <2>2. CASE next = [call EXCEPT !.at = "store", !.bars = B]
    BY <1>4, <1>7, <2>2 DEF CallOK
  <2>. QED
    BY <1>5, <2>1, <2>2
<1>9. FinalBarsStay' /\ UNCHANGED <<mday, msnaps>>
  BY NoSeriesShown DEF NoSeriesAnswer, Fetch
<1>. QED
  BY <1>6, <1>8, <1>9 DEF DataInv

LEMMA StoreSnapshotKeepsInv == ASSUME DataInv, NEW l \in Loaders, StoreSnapshot(l) PROVE DataInv'
<1>1. PICK call, n, s : /\ call = mload[l] /\ n = Len(msnaps)
                        /\ s = [key |-> call.key, bars |-> call.bars,
                                latest |-> finalCompleteDate(call.bars), rows |-> 0]
  OBVIOUS
<1>2. PICK next : next = [call EXCEPT !.at = "rows", !.snap = n + 1]
  OBVIOUS
<1>3. call.at = "store" /\ CallOK(call, msnaps, mday) /\ mday \in 1 .. MaxDays
  BY <1>1 DEF StoreSnapshot, DataInv
<1>4. DOMAIN call = {"at", "key", "for", "snap", "bars"} /\ SeriesAt(call.bars, mday)
  BY <1>3 DEF CallOK
<1>5. /\ msnaps' = Append(msnaps, s) /\ mload' = [mload EXCEPT ![l] = next]
      /\ mday' = mday /\ mans' = NoSeriesAnswer
  <2>1. mload' = [mload EXCEPT ![l] = [@ EXCEPT !.at = "rows", !.snap = n + 1]]
    BY <1>1 DEF StoreSnapshot, DataInv
  <2>. QED
    BY <1>1, <1>2, <2>1 DEF StoreSnapshot, DataInv
<1>6. /\ IsSequence(msnaps') /\ DOMAIN msnaps = 1 .. n /\ DOMAIN msnaps' = 1 .. n + 1
      /\ \A i \in 1 .. n : msnaps'[i] = msnaps[i]
      /\ msnaps'[n + 1] = s /\ n \in Nat
  BY <1>1, <1>5, Appended DEF DataInv
<1>7. SnapOK(s, mday)
  <2>1. /\ DOMAIN s = {"key", "bars", "latest", "rows"} /\ s.bars = call.bars
        /\ s.latest = finalCompleteDate(s.bars)
    BY <1>1
  <2>2. mday \in 1 .. mday
    BY <1>3, DataAssumption
  <2>. QED
    BY <1>4, <2>1, <2>2 DEF SnapOK
<1>8. CallOK(next, msnaps', mday)
  <2>1. /\ next.at = "rows" /\ next.snap = n + 1 /\ next.bars = call.bars
        /\ DOMAIN next = {"at", "key", "for", "snap", "bars"}
    BY <1>2, <1>4
  <2>2. n + 1 \in DOMAIN msnaps'
    BY <1>6
  <2>. QED
    BY <1>4, <2>1, <2>2 DEF CallOK
<1>9. \A i \in DOMAIN msnaps : i \in DOMAIN msnaps' /\ msnaps'[i] = msnaps[i]
  BY <1>6
<1>10. \A i \in DOMAIN msnaps' : i \in DOMAIN msnaps \/ i = n + 1
  BY <1>6
<1>11. \A i \in DOMAIN msnaps' : SnapOK(msnaps'[i], mday)
  BY <1>6, <1>7, <1>9, <1>10 DEF DataInv
<1>12. \A k \in Loaders : CallOK(mload[k], msnaps', mday)
  BY <1>9, CallKept DEF DataInv
<1>13. FinalBarsStay'
  BY <1>5, NoSeriesShown DEF NoSeriesAnswer
<1>. QED
  BY <1>5, <1>6, <1>8, <1>11, <1>12, <1>13 DEF DataInv

LEMMA StoreRowsKeepsInv == ASSUME DataInv, NEW l \in Loaders, StoreRows(l) PROVE DataInv'
<1>1. PICK call, i, old : call = mload[l] /\ i = call.snap /\ old = msnaps[i]
  OBVIOUS
<1>2. PICK s : s = [old EXCEPT !.rows = old.rows + 1]
  OBVIOUS
<1>3. call.at = "rows" /\ i \in DOMAIN msnaps /\ SeriesAt(call.bars, mday)
  BY <1>1 DEF StoreRows, DataInv, CallOK
<1>4. msnaps' = [msnaps EXCEPT ![i] = s] /\ mday' = mday
  <2>1. msnaps' = [msnaps EXCEPT ![i] = [@ EXCEPT !.rows = old.rows + 1]]
    BY <1>1 DEF StoreRows
  <2>. QED
    BY <1>1, <1>2, <2>1 DEF StoreRows
<1>5. SnapOK(old, mday)
  BY <1>1, <1>3 DEF DataInv
<1>6. SnapOK(s, mday) /\ s.bars = old.bars
  <2>1. DOMAIN old = {"key", "bars", "latest", "rows"}
    BY <1>5 DEF SnapOK
  <2>2. DOMAIN s = DOMAIN old /\ s.bars = old.bars /\ s.latest = old.latest
    BY <1>2, <2>1
  <2>. QED
    BY <1>5, <2>2 DEF SnapOK
<1>7. IsSequence(msnaps') /\ DOMAIN msnaps' = DOMAIN msnaps
  BY <1>3, <1>4, Replaced DEF DataInv
<1>8. \A j \in DOMAIN msnaps : msnaps'[j] = IF j = i THEN s ELSE msnaps[j]
  BY <1>4
<1>9. \A j \in DOMAIN msnaps' : SnapOK(msnaps'[j], mday)
  BY <1>6, <1>7, <1>8 DEF DataInv
<1>10. \A j \in DOMAIN msnaps : j \in DOMAIN msnaps' /\ msnaps'[j].bars = msnaps[j].bars
  BY <1>1, <1>6, <1>7, <1>8
<1>11. \A k \in Loaders : CallOK(mload[k], msnaps', mday)
  BY <1>10, CallKept DEF DataInv
<1>12. CASE Serve(l, i, call.bars)
  <2>1. PICK rows : rows = call.bars
    OBVIOUS
  <2>2. FinalBarsStay' /\ mload' = [mload EXCEPT ![l] = Waiting]
    BY <1>3, <1>12, <2>1, ServeAnswers
  <2>. QED
    BY <1>4, <1>7, <1>9, <1>11, <2>2, IdleIsOK DEF DataInv
<1>13. CASE mans' = NoSeriesAnswer /\ UNCHANGED <<mload, mread>>
  <2>1. FinalBarsStay'
    BY <1>13, NoSeriesShown DEF NoSeriesAnswer
  <2>. QED
    BY <1>4, <1>7, <1>9, <1>11, <1>13, <2>1 DEF DataInv
<1>. QED
  BY <1>1, <1>12, <1>13 DEF StoreRows

LEMMA TheDayKeepsInv == ASSUME DataInv, LoadersLost \/ SessionEnds \/ NextDay PROVE DataInv'
<1>0. FinalBarsStay'
  BY NoSeriesShown DEF NoSeriesAnswer, LoadersLost, SessionEnds, NextDay
<1>1. CASE LoadersLost
  BY <1>0, <1>1, IdleIsOK DEF DataInv, LoadersLost
<1>2. CASE SessionEnds
  BY <1>0, <1>2 DEF DataInv, SessionEnds
<1>3. CASE NextDay
  <2>1. mday' = mday + 1 /\ mday' \in 1 .. MaxDays /\ mday \in Nat /\ UNCHANGED <<msnaps, mload>>
    BY <1>3, DataAssumption DEF NextDay, DataInv
  <2>2. \A i \in DOMAIN msnaps : SnapOK(msnaps[i], mday')
    <3>. SUFFICES ASSUME NEW i \in DOMAIN msnaps PROVE SnapOK(msnaps[i], mday')
      OBVIOUS
    <3>1. SnapOK(msnaps[i], mday)
      BY DEF DataInv
    <3>2. \A day \in 1 .. mday : day \in 1 .. mday'
      BY <2>1
    <3>. QED
      BY <3>1, <3>2 DEF SnapOK
  <2>3. \A l \in Loaders : CallOK(mload[l], msnaps, mday')
    BY <1>3 DEF NextDay, CallOK
  <2>. QED
    BY <1>0, <2>1, <2>2, <2>3 DEF DataInv
<1>. QED
  BY <1>1, <1>2, <1>3

LEMMA DataStep == ASSUME DataInv, [DataNext]_mdVars PROVE DataInv'
<1>1. ASSUME NEW l \in Loaders, NEW key, GetOHLCV(l, key) PROVE DataInv'
  BY <1>1, LookKeepsInv DEF GetOHLCV
<1>2. ASSUME NEW l \in Loaders, NEW q, GetQuote(l, q) PROVE DataInv'
  <2>1. CASE Look(l, <<"1d", "raw">>, "quote")
    BY <2>1, LookKeepsInv
  <2>2. CASE ~Look(l, <<"1d", "raw">>, "quote")
    <3>1. mans'.by = "quote" /\ UNCHANGED <<mday, msnaps, mload>>
      BY <1>2, <2>2 DEF GetQuote
    <3>. QED
      BY <3>1, NoSeriesShown DEF DataInv
  <2>. QED
    BY <2>1, <2>2
<1>3. ASSUME NEW l \in Loaders, NEW q, attachQuotes(l, q) PROVE DataInv'
  <2>1. CASE Look(l, <<"1d", "raw">>, "quote")
    BY <2>1, LookKeepsInv
  <2>2. CASE ~Look(l, <<"1d", "raw">>, "quote")
    <3>1. mans'.by = "quote" /\ UNCHANGED <<mday, msnaps, mload>>
      BY <1>3, <2>2, QuotesAreQuotes DEF attachQuotes
    <3>. QED
      BY <3>1, NoSeriesShown DEF DataInv
  <2>. QED
    BY <2>1, <2>2
<1>4. CASE UNCHANGED mdVars
  <2>1. UNCHANGED <<mday, msnaps, mload, mans>>
    BY <1>4 DEF mdVars
  <2>2. FinalBarsStay'
    <3>1. FinalBarsStay
      BY DEF DataInv
    <3>. QED
      BY <2>1, <3>1 DEF FinalBarsStay, LastBar
  <2>. QED
    BY <2>1, <2>2 DEF DataInv
<1>. QED
  BY <1>1, <1>2, <1>3, <1>4, ReadRowsKeepsInv, FetchKeepsInv, StoreSnapshotKeepsInv,
     StoreRowsKeepsInv, TheDayKeepsInv DEF DataNext

----------------------------------------------------------------------------
\* A snapshot that is served without asking the provider holds the final bar of
\* the last complete session, and the quote laid over a series for display takes
\* the place of no final bar and leaves only the newest bar open (service/market).
THEOREM FinalBarsAreFinal == DataSpec => []FinalBarsHold
<1>1. DataInit => DataInv
  BY DataInitInv
<1>2. DataInv /\ [DataNext]_mdVars => DataInv'
  BY DataStep
<1>3. DataInv => FinalBarsHold
  BY DataInvIsFresh DEF DataInv, FinalBarsHold
<1>. QED
  BY <1>1, <1>2, <1>3, PTL DEF DataSpec
============================================================================
