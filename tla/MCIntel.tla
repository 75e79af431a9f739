------------------------------ MODULE MCIntel ------------------------------
(***************************************************************************)
(* The intel module, one instance for TLC: its job queue, the data space   *)
(* of a demo session, the replay of a fixture and the pages of its lists.  *)
(* `part` names the component that runs, the variables of the others stay  *)
(* as they are.                                                            *)
(***************************************************************************)
EXTENDS IntelQueue, IntelSpace, ListPages, Sequences

CONSTANTS IrSteps, IrBranches, IrStepBranch, FreshDays, StaleDays, MaxReplays
VARIABLES rspace, revid, revent, rconf, rpub, rnotes, rwatch, rmute
R == INSTANCE IntelReplay

VARIABLE part

irVars == <<rspace, revid, revent, rconf, rpub, rnotes, rwatch, rmute>>
intelVars == <<part, vars, isVars, lpVars, irVars>>

(* The values of the constants that a cfg cannot write: extractions, and   *)
(* one ingestion.                                                          *)
MCKinds == [j \in Jobs |-> IF j = "ingest" THEN "ingest" ELSE "extract"]

(* The fixture of the repository (tests/fixtures/intel), day by day.       *)
MCEvidence(id, claim, value, weight, grade, stance, auth, day, supersedes) ==
    [id |-> id, claim |-> claim, value |-> value, weight |-> weight, grade |-> grade,
     stance |-> stance, auth |-> auth, explicit |-> TRUE, status |-> "active",
     disclosed |-> day, supersedes |-> supersedes]
MCRumor(id, claim, value) == MCEvidence(id, claim, value, 1, "rumor", "support", FALSE, 0, {})
MCFact(id, claim, value, day, supersedes) ==
    MCEvidence(id, claim, value, 10, "fact", "support", TRUE, day, supersedes)
MCStep(ev, at, phase) ==
    [ev |-> ev, at |-> at, repost |-> FALSE, simulation |-> FALSE, phase |-> phase,
     phaseAuth |-> phase # "unknown", covered |-> TRUE]

MCSteps == [
    S1 |-> MCStep(<<MCRumor("s1c", "core", "exists"), MCRumor("s1a", "amount", "1000")>>, 0, "unknown"),
    S2 |-> [MCStep(<<>>, 0, "unknown") EXCEPT !.repost = TRUE],
    S3 |-> MCStep(<<MCFact("n1c", "core", "exists", 9, {}), MCFact("n1a", "amount", "1000", 9, {})>>,
                  9, "proposed"),
    S4 |-> MCStep(<<MCFact("n2a", "amount", "800", 10, {"n1a"})>>, 10, "proposed"),
    S5 |-> MCStep(<<MCFact("n3a", "amount", "1000", 11, {})>>, 11, "proposed"),
    S6 |-> MCStep(<<MCFact("n4a", "amount", "800", 12, {"n3a"})>>, 12, "proposed"),
    S7 |-> [MCStep(<<>>, 42, "proposed") EXCEPT !.simulation = TRUE],
    S8 |-> MCStep(<<MCFact("n5t", "terminated", "true", 43, {})>>, 43, "terminated"),
    D  |-> MCStep(<<[MCFact("d1c", "core", "exists", 1, {}) EXCEPT !.stance = "refute"]>>, 1, "unknown")]

MCBranches == [main |-> <<"S1", "S2", "S3", "S4", "S5", "S6", "S7", "S8">>, denial |-> <<"S1", "D">>]

IntelInit ==
    /\ part \in {"queue", "space", "pages", "replay"}
    /\ QueueInit /\ SpaceInit /\ PagesInit /\ R!Init

OnlyQueue == part = "queue" /\ UNCHANGED <<part, isVars, lpVars, irVars>>

IntelNext ==
    \/ QueueNext /\ OnlyQueue
    \/ part = "space" /\ SpaceNext /\ UNCHANGED <<part, vars, lpVars, irVars>>
    \/ part = "pages" /\ PagesNext /\ UNCHANGED <<part, vars, isVars, irVars>>
    \/ part = "replay" /\ R!Next /\ UNCHANGED <<part, vars, isVars, lpVars>>

(* The fairness of IntelQueue. *)
IntelSpec ==
    /\ IntelInit /\ [][IntelNext]_intelVars
    /\ \A w \in Workers : /\ WF_intelVars(ClaimJob(w) /\ OnlyQueue)
                          /\ WF_intelVars(Process(w) /\ OnlyQueue)
    /\ \A j \in Jobs : WF_intelVars(LeaseRunsOut(j) /\ OnlyQueue)

----------------------------------------------------------------------------
(* The properties of the modules, each for the states of its own part.     *)

\* Advance and storeStep: the event a step stores is what the evaluator says of the
\* evidence accumulated so far.
StoredAsEvaluated == R!StoredAsEvaluated
=============================================================================
