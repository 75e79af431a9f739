--------------------------- MODULE FuturesEvidence ---------------------------
(* Observations of the futures module and what a report may cite of them:     *)
(* ingestion with its chain of revisions (ingest.go), the manifest frozen for *)
(* an execution and the check of the candidate it answers (worker_client.go,  *)
(* verifier.go).  A point is one series at one period.  One private user.     *)
EXTENDS Integers, Sequences, FiniteSets, FiniteSetsExt

CONSTANTS FePoints, FeSources,
          MaxObservations, MaxRevision, \* bounds of the ingested rows
          MaxFeClock                    \* bound of the clock

ASSUME EvidenceAssumption == MaxObservations \in Nat /\ MaxRevision \in Nat /\ MaxFeClock \in Nat

VARIABLES feobs,    \* futures_observations, in order of their identifiers
          fesrc,    \* futures_sources that are enabled and allow model use
          feclock,
          ferun,    \* the run: status, as_of, manifest records
          fecalc,   \* input sets of the calculations registered for the run
          feknown   \* rows there were when the manifest was frozen
feVars == <<feobs, fesrc, feclock, ferun, fecalc, feknown>>

NoRunYet == [st |-> "none", asof |-> 0, manifest |-> {}, cited |-> {}]
EvidenceInit == /\ feobs = <<>> /\ fesrc = FeSources /\ feclock = 1
                /\ ferun = NoRunYet /\ fecalc = {} /\ feknown = 0

Rows == 1..Len(feobs)
OfPoint(p) == {i \in Rows : feobs[i].point = p}
Revisions(p) == {feobs[i].rev : i \in OfPoint(p)}

----------------------------------------------------------------------------
(* A revision follows the one before it; the same revision may come again     *)
(* with another content.  A row may be usable from a later moment on.         *)
Follows(p, rev) ==
    rev = 1 \/ Max({0} \cup {r \in Revisions(p) : r < rev}) = rev - 1
ingestObservation(p, rev, usable, src, scope, quality) ==
    /\ Len(feobs) < MaxObservations
    /\ src \in fesrc /\ Follows(p, rev)
    /\ feobs' = Append(feobs, [point |-> p, rev |-> rev, usable |-> usable,
                               src |-> src, scope |-> scope, ok |-> quality])
    /\ UNCHANGED <<fesrc, feclock, ferun, fecalc, feknown>>

DisableSource(s) ==
    /\ s \in fesrc /\ fesrc' = fesrc \ {s}
    /\ UNCHANGED <<feobs, feclock, ferun, fecalc, feknown>>
Tick == /\ feclock < MaxFeClock /\ feclock' = feclock + 1
        /\ UNCHANGED <<feobs, fesrc, ferun, fecalc, feknown>>

----------------------------------------------------------------------------
(* as_of is frozen with the run, the manifest when the run is executed: of    *)
(* each point the newest revision that was usable then, public or the user's  *)
(* own ("readable").                                                          *)
CreateRun == /\ ferun.st = "none"
             /\ ferun' = [ferun EXCEPT !.st = "queued", !.asof = feclock]
             /\ UNCHANGED <<feobs, fesrc, feclock, fecalc, feknown>>

UsableFor(i, asof) == /\ feobs[i].usable <= asof /\ feobs[i].src \in fesrc
                      /\ feobs[i].scope = "readable"
olderThan(i, j) == i < j                                          \* mutant
Older(i, j) == \/ feobs[i].rev < feobs[j].rev
               \/ feobs[i].rev = feobs[j].rev /\ i < j
freezeManifestRecords(asof) ==
    {i \in Rows : /\ UsableFor(i, asof)
                 /\ \A j \in OfPoint(feobs[i].point) :
                        UsableFor(j, asof) => ~Older(i, j)}

ExecuteRun == /\ ferun.st = "queued"
              /\ ferun' = [ferun EXCEPT !.st = "executing",
                                        !.manifest = freezeManifestRecords(ferun.asof)]
              /\ feknown' = Len(feobs) /\ fecalc' = {}
              /\ UNCHANGED <<feobs, fesrc, feclock>>

(* futures_calculate computes from records of the manifest.                   *)
RegisterCalculation(inputs) ==
    /\ ferun.st = "executing" /\ inputs \subseteq ferun.manifest /\ inputs # {}
    /\ fecalc' = {inputs}
    /\ UNCHANGED <<feobs, fesrc, feclock, ferun, feknown>>

(* The candidate: the records it lists, those its reviews and reasoning rest  *)
(* on, the inputs of the calculation it repeats, whether every claim has its  *)
(* review, and what it says when the evidence does not do.                    *)
Candidates ==
    [listed : SUBSET Rows, reasons : {{}, Rows}, calc : {{}, Rows} \cup fecalc,
     everyClaim : BOOLEAN, says : {"conclusion", "insufficient", "insufficient, with gaps"}]

verifyEvidence(i) ==
    /\ i \in ferun.manifest
    /\ feobs[i].scope # "others" /\ feobs[i].usable <= ferun.asof
    /\ feobs[i].src \in fesrc /\ feobs[i].ok
VerifyCandidate(r) ==
    /\ r.everyClaim
    /\ \A i \in r.listed : verifyEvidence(i)
    /\ r.reasons \subseteq r.listed
    /\ r.calc # {} => r.calc \in fecalc /\ r.calc \subseteq r.listed
    /\ r.says # "insufficient"

(* A run that failed publishes nothing: what it had frozen is not followed.   *)
FailedRun == [NoRunYet EXCEPT !.st = "failed"]

(* The answer is checked against the rows and sources as they are now, and    *)
(* published in a transaction of its own.                                     *)
WorkerAnswers ==
    /\ ferun.st = "executing"
    /\ \/ \E listed \in {r.listed : r \in {c \in Candidates : VerifyCandidate(c)}} :
             ferun' = [ferun EXCEPT !.st = "verified", !.cited = listed]
       \/ \* the candidate is refused, or there is none
          ferun' = FailedRun
    /\ UNCHANGED <<feobs, fesrc, feclock, fecalc, feknown>>
CompleteRun == /\ ferun.st = "verified" /\ ferun' = [ferun EXCEPT !.st = "published"]
               /\ UNCHANGED <<feobs, fesrc, feclock, fecalc, feknown>>
(* A run whose lease or deadline has passed fails, whatever its execution is  *)
(* about to do; a lease may as well go on for ever.                           *)
ExpireStaleRuns == /\ ferun.st \in {"queued", "executing", "verified"} /\ ferun' = FailedRun
                   /\ UNCHANGED <<feobs, fesrc, feclock, fecalc, feknown>>

EvidenceNext ==
    \/ \E p \in FePoints, rev \in 1..MaxRevision, usable \in 1..MaxFeClock,
          s \in FeSources, scope \in {"readable", "others"}, ok \in BOOLEAN :
          ingestObservation(p, rev, usable, s, scope, ok)
    \/ \E s \in FeSources : DisableSource(s)
    \/ Tick \/ CreateRun \/ ExecuteRun \/ CompleteRun \/ ExpireStaleRuns
    \/ \E inputs \in SUBSET Rows : RegisterCalculation(inputs)
    \/ WorkerAnswers

EvidenceSpec == EvidenceInit /\ [][EvidenceNext]_feVars

----------------------------------------------------------------------------
(* What a published report cites is one version of the facts, as they were    *)
(* known at its as_of: no record from after it, no record that a revision     *)
(* known and usable then had replaced, nothing of another user.  Revisions    *)
(* that arrive while the run executes change none of it.                      *)
CitesWhatWasKnown ==
    ferun.st = "published" =>
        \A i \in ferun.cited :
            /\ feobs[i].usable <= ferun.asof /\ feobs[i].scope # "others"
            /\ \A j \in OfPoint(feobs[i].point) :
                   /\ j <= feknown /\ feobs[j].usable <= ferun.asof
                   /\ feobs[j].scope # "others" /\ feobs[j].src \in fesrc
                   => feobs[j].rev <= feobs[i].rev

(* A published report cites no source that has been switched off (:215); the  *)
(* check and the publication are two transactions, so the code does not       *)
(* keep it.                                                                   *)
CitesLiveSources ==
    [][ferun'.st = "published" /\ ferun.st # "published"
           => \A i \in ferun.cited : feobs[i].src \in fesrc]_feVars
=============================================================================
