---------------------------- MODULE IntelReplay ----------------------------
(* The demo replay of the intel module: the evidence rules evaluate a branch  *)
(* of labelled steps from its start (fixture.go, rules.go, time.go), and each *)
(* replay step writes its evidence, conflict, version and notification with   *)
(* SQL statements of its own (replay.go).                                     *)
EXTENDS Integers, Sequences, FiniteSets, FiniteSetsExt, SequencesExt

CONSTANTS IrSteps,       \* the labelled steps, by identifier
          IrBranches,    \* the steps of each branch, in order
          IrStepBranch,  \* values of "branch" a step request carries
          FreshDays, StaleDays,
          MaxReplays     \* bound: replay versions

VARIABLES rspace,   \* finance_intel_namespaces: branch, step index, version
          revid,    \* finance_intel_evidence and its memberships
          revent,   \* current_version of the event, 0 before the first step
          rconf,    \* finance_intel_conflicts: the statuses that have a row
          rpub,     \* the rules' active evidence when each version was stored
          rnotes,   \* versions with a notification and an outbox row
          rwatch, rmute   \* the session follows the event's codes, mutes it
irVars == <<rspace, revid, revent, rconf, rpub, rnotes, rwatch, rmute>>

Init == /\ rspace = [branch |-> "main", step |-> 0, ver |-> 0]
        /\ revid = {} /\ revent = 0 /\ rconf = {} /\ rpub = <<>> /\ rnotes = {}
        /\ rwatch = FALSE /\ rmute = FALSE

----------------------------------------------------------------------------
(* The rules.  Weights are tenths, scores hundredths.                         *)
Factor(grade) == CASE grade = "fact" -> 10 [] grade = "opinion" -> 6
                   [] grade = "inference" -> 3 [] grade = "rumor" -> 1
effectiveWeight(e) ==
    IF e.status # "active" THEN 0 ELSE Max({0, e.weight * Factor(e.grade)})
maxClusterScore(ev, stance) ==
    Max({0} \cup {effectiveWeight(e) : e \in {f \in ev : f.stance = stance}})
level(score) == IF score >= 80 THEN "high" ELSE IF score >= 40 THEN "medium" ELSE "low"

Stated(ev) == {e \in ev : e.status = "active" /\ e.stance # "context" /\ e.value # ""}
openConflictIDs(ev) ==
    {e.id : e \in {f \in Stated(ev) : \E g \in Stated(ev) :
                       g.claim = f.claim /\ g.value # f.value}}
EvaluateClaim(ev) ==
    LET support == maxClusterScore(ev, "support")
        refute == maxClusterScore(ev, "refute")
    IN [refute |-> refute,
        level |-> IF support = 0 /\ refute = 0 THEN "unknown"
                  ELSE IF openConflictIDs(ev) # {} THEN "medium" ELSE level(support)]

EvaluateVerification(ev) ==
    LET core == {e \in ev : /\ e.claim = "core" /\ e.status = "active"
                            /\ e.grade = "fact" /\ e.auth /\ e.explicit}
        support == maxClusterScore(core, "support")
        refute == maxClusterScore(core, "refute")
    IN IF support > refute THEN "confirmed"
       ELSE IF refute > support THEN "denied"
       ELSE IF support > 0 THEN "disputed" ELSE "unverified"

activeEvidence(ev) == {e \in ev : e.status = "active"}
EvaluateFreshness(ev, now, covered) ==
    LET latest == Max({-1} \cup {e.disclosed : e \in activeEvidence(ev)})
    IN IF ~covered \/ latest < 0 \/ now < latest THEN "unknown"
       ELSE IF now - latest < FreshDays THEN "fresh"
       ELSE IF now - latest < StaleDays THEN "stale" ELSE "expired"

amountValues(ev) ==
    LET told == {e \in activeEvidence(ev) : /\ e.claim = "amount" /\ e.value # ""
                                            /\ e.stance = "support"}
        most == Max({0} \cup {effectiveWeight(e) : e \in told})
    IN {e.value : e \in {f \in told : effectiveWeight(f) = most}}
conflictClaimCount(ev) ==
    Cardinality({e.claim : e \in {f \in Stated(ev) : f.id \in openConflictIDs(ev)}})
phaseAfter(phase, s) == IF ~s.phaseAuth /\ phase # "" THEN phase ELSE s.phase

(* One item of evidence arrives: what it corrects, and the unverified reports *)
(* of its claim when it is an authoritative original, become history.         *)
addEvidence(ev, e) ==
    {IF \/ f.id \in e.supersedes
        \/ e.auth /\ e.status = "active" /\ f.claim = e.claim /\ ~f.auth
     THEN [f EXCEPT !.status = "superseded"] ELSE f : f \in ev} \cup {e}

Shown(ev, phase, s) ==
    LET active == activeEvidence(ev)
        core == EvaluateClaim({e \in active : e.claim = "core"})
        verdict == EvaluateVerification(active)
        conflicts == conflictClaimCount(active)
        own == IF verdict # "denied" THEN core.level
               ELSE IF core.refute > 0 THEN level(core.refute) ELSE "low"
    IN [verification |-> verdict, phase |-> phase, conflicts |-> conflicts,
        freshness |-> EvaluateFreshness(active, s.at, s.covered),
        support |-> IF conflicts > 0 /\ own = "high" THEN "medium" ELSE own,
        amount |-> amountValues(active)]

NothingShown == [verification |-> "none"]
opensVersion(r, now, s) == \/ r.version = 0
                           \/ now # r.shown /\ ~s.repost
RunFixture(branch) ==
    LET steps == IrBranches[branch]
        r[n \in 0..Len(steps)] ==
            IF n = 0
            THEN [ev |-> {}, phase |-> "unknown", version |-> 0, shown |-> NothingShown]
            ELSE LET s == IrSteps[steps[n]]
                     old == r[n - 1]
                     ev == IF s.simulation THEN old.ev
                           ELSE FoldLeft(addEvidence, old.ev, s.ev)
                     phase == IF s.repost /\ ~s.simulation THEN old.phase
                              ELSE phaseAfter(old.phase, s)
                     now == Shown(ev, phase, s)
                 IN [ev |-> ev, phase |-> phase, shown |-> now,
                     version |-> IF opensVersion(old, now, s)
                                 THEN old.version + 1 ELSE old.version]
    IN r

----------------------------------------------------------------------------
(* One replay step: the statements of its transaction.                        *)
NoEnd == -1
endsLate(r, v) == [r EXCEPT !.active = FALSE,                    \* mutant
                            !.to = IF @ = NoEnd THEN v ELSE @]
endsBefore(r, v) == [r EXCEPT !.active = FALSE,
                              !.to = IF @ = NoEnd THEN v - 1 ELSE @]
StoreEvidence(rows, e, v) ==
    {IF r.id \in e.supersedes \/ (e.auth /\ r.claim = e.claim /\ ~r.auth)
     THEN endsBefore(r, v) ELSE r : r \in rows}
    \cup {[id |-> e.id, claim |-> e.claim, auth |-> e.auth, active |-> TRUE,
           from |-> v, to |-> NoEnd]}
evidenceVersion(version) ==
    IF version > 0 THEN version ELSE IF revent > 0 THEN revent ELSE 1

(* An open conflict is opened once; two resolved ones cannot be stored.       *)
StoreConflict(open) ==
    IF open THEN rconf' = rconf \cup {"open"}
    ELSE /\ "open" \in rconf => "resolved" \notin rconf
         /\ rconf' = IF "open" \in rconf THEN {"resolved"} ELSE rconf

(* A new version gets its snapshot and change, and a notification when the    *)
(* session follows a code of the event and has not muted it.                  *)
StoreVersion(version, active) ==
    IF version > revent
    THEN /\ revent' = version
         /\ rpub' = Append(rpub, [version |-> version, active |-> active])
         /\ rnotes' = IF rwatch /\ ~rmute THEN rnotes \cup {version} ELSE rnotes
    ELSE UNCHANGED <<revent, rpub, rnotes>>

ReplayStep(asked) ==
    LET branch == IF asked # "" THEN asked ELSE rspace.branch
        i == rspace.step + 1
    IN /\ rspace.ver < MaxReplays
       /\ i <= Len(IrBranches[branch])    \* past the end it only answers "done"
       /\ LET s == IrSteps[IrBranches[branch][i]]
              result == RunFixture(branch)[i]
              v == evidenceVersion(result.version)
              store(rows, e) == StoreEvidence(rows, e, v)
          IN /\ revid' = FoldLeft(store, revid, s.ev)
             /\ StoreConflict(result.shown.conflicts > 0)
             /\ StoreVersion(result.version,
                             {e.id : e \in activeEvidence(result.ev)})
       /\ rspace' = [branch |-> branch, step |-> i, ver |-> rspace.ver + 1]
       /\ UNCHANGED <<rwatch, rmute>>

ReplayReset(asked) ==
    /\ rspace.ver < MaxReplays
    /\ rspace' = [branch |-> asked, step |-> 0, ver |-> rspace.ver + 1]
    /\ revid' = {} /\ revent' = 0 /\ rconf' = {} /\ rpub' = <<>> /\ rnotes' = {}
    /\ rwatch' = FALSE /\ rmute' = FALSE

Watch(b) == rwatch' = b
            /\ UNCHANGED <<rspace, revid, revent, rconf, rpub, rnotes, rmute>>
(* A mute set before the event exists is kept under another identifier and    *)
(* never found again.                                                         *)
Mute(b) == revent > 0 /\ rmute' = b
           /\ UNCHANGED <<rspace, revid, revent, rconf, rpub, rnotes, rwatch>>

Next == \/ \E asked \in IrStepBranch : ReplayStep(asked)
        \/ \E branch \in DOMAIN IrBranches : ReplayReset(branch)
        \/ \E b \in BOOLEAN : Watch(b) \/ Mute(b)

Spec == Init /\ [][Next]_irVars

----------------------------------------------------------------------------
(* The stored evidence and the rules tell one story: the active rows are the  *)
(* rules' active evidence, and the members of every version are the evidence  *)
(* that was active when the version was stored.                               *)
Members(v) == {r.id : r \in {q \in revid : q.from <= v /\ (q.to = NoEnd \/ v <= q.to)}}
StoredAsEvaluated ==
    /\ {r.id : r \in {q \in revid : q.active}}
           = {e.id : e \in activeEvidence(RunFixture(rspace.branch)[rspace.step].ev)}
    /\ \A p \in Range(rpub) : Members(p.version) = p.active
=============================================================================
