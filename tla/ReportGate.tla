---------------------------- MODULE ReportGate ----------------------------
(***************************************************************************)
(* From the answers of the two roles to a published report                 *)
(* (app/server/service/finance: nodes.go synthesize and verify, verdict.go,*)
(* report_model_v2.go, report_gate_v2.go, publish_gate.go and the gates of *)
(* Publish).  A text is its subject, its tone and the material number it   *)
(* states; "material" stands for the claim types fact and inference.  The  *)
(* fences of the run (lease, version, cancel) are in ResearchRun.          *)
(***************************************************************************)
EXTENDS Integers, FiniteSets

CONSTANTS
    Outcomes,  \* how a role may end: among "ran", "failed" and "canceled"
    Evidence,  \* evidence ids
    HeldBy,    \* [role -> the evidence registered for its task]
    Numbers,   \* material numbers
    Prints,    \* [evidence -> the numbers its text and metrics contain]
    NoNumber,
    ArgSets    \* the sets of arguments a role may return

Roles == {"supporter", "challenger"}

Argument == [type : {"material", "assumption"}, tone : {"up", "down", "doubt"},
             about : {"claim", "other"}, cites : SUBSET Evidence, number : Numbers \cup {NoNumber}]

ASSUME GateAssumption == ArgSets \subseteq SUBSET Argument

Answer == [outcome : Outcomes, args : ArgSets]
Item == [type : {"material", "assumption"}, outlook : BOOLEAN]

VARIABLES
    item,   \* the confirmed claim
    answer, \* what the executor returned for each role
    report, \* the report under construction, or NoReport
    stage   \* "research", "verify", "failed", "published", "refused"

rgVars == <<item, answer, report, stage>>

NoVerdict == "none"
NoReport == [support |-> {}, challenge |-> {}, check |-> "uncertain",
             quality |-> "incomplete", verdict |-> NoVerdict]

GateInit ==
    /\ item \in Item
    /\ answer \in [Roles -> Answer]
    /\ report = NoReport /\ stage = "research"

----------------------------------------------------------------------------
(* Mutant: whether the role holds the evidence it cites is not looked at. *)
PassesLoosely(role) ==
    \A a \in answer[role].args : a.type = "material" => a.cites # {}

(* ValidateRole: the answer cites only evidence of its own task, and every *)
(* material argument cites some.  One bad argument drops the whole answer. *)
PassesValidateRole(role) ==
    \A a \in answer[role].args :
        /\ a.cites \subseteq HeldBy[role]
        /\ a.type = "material" => a.cites # {}

Kept(role) == IF PassesValidateRole(role) THEN answer[role].args ELSE {}

roleExecutable(role) == PassesValidateRole(role) /\ answer[role].outcome = "ran"

(* AdjudicateClaim *)
relevantArgs(args) ==
    {a \in args : item.type # "assumption" /\ a.cites # {} /\ a.about = "claim"}

directContradiction(support, challenge) ==
    \E s \in support, c \in challenge :
        /\ s.cites \cap c.cites # {} \/ s.about = c.about
        /\ {s.tone, c.tone} = {"up", "down"}

challengeNegatesClaim(challenge) == \E c \in challenge : c.tone \in {"down", "doubt"}

AdjudicateClaim(support, challenge) ==
    LET s == relevantArgs(support)
        c == relevantArgs(challenge)
    IN CASE item.outlook -> "prerequisite_missing"
         [] ~item.outlook /\ directContradiction(s, c) -> "contradicted"
         [] ~item.outlook /\ ~directContradiction(s, c) /\ s # {} /\ c # {} -> "uncertain"
         [] ~item.outlook /\ s = {} /\ c # {} ->
                IF challengeNegatesClaim(c) THEN "contradicted" ELSE "uncertain"
         [] ~item.outlook /\ s # {} /\ c = {} -> "supported"
         [] ~item.outlook /\ s = {} /\ c = {} ->
                IF item.type = "assumption" THEN "prerequisite_missing" ELSE "uncertain"

(* JudgeClaim, the second judgement of the same claim, and JudgeReport,    *)
(* which carries the verdict of a single claim over.                       *)
JudgeClaim(support, challenge) ==
    LET s == relevantArgs(support)
        c == relevantArgs(challenge)
    IN IF item.outlook \/ (s = {} /\ c = {}) THEN "insufficient"
       ELSE IF directContradiction(s, c) THEN "mixed"
       ELSE IF s = {} THEN "challenged" ELSE "supported"

verdictFromFactChecks(check) ==
    CASE check = "supported" -> "supported"
      [] check = "contradicted" -> "challenged"
      [] check \in {"uncertain", "prerequisite_missing"} -> "insufficient"

----------------------------------------------------------------------------

(* synthesize: both roles have to run and to pass ValidateRole for a       *)
(* verdict; a refused answer, or failed roles only, fail the run.          *)
QualityOf == IF \A r \in Roles : roleExecutable(r) THEN "completed" ELSE "incomplete"

FailRun ==
    \/ \E r \in Roles : ~PassesValidateRole(r)
    \/ /\ \E r \in Roles : answer[r].outcome = "failed"
       /\ \A r \in Roles : ~roleExecutable(r)

Synthesize ==
    /\ stage = "research"
    /\ LET support == Kept("supporter")
           challenge == Kept("challenger")
       IN report' = [support |-> support, challenge |-> challenge,
                     check |-> AdjudicateClaim(support, challenge),
                     quality |-> QualityOf,
                     verdict |-> IF QualityOf = "completed"
                                   THEN JudgeClaim(support, challenge) ELSE NoVerdict]
    /\ stage' = IF FailRun THEN "failed" ELSE "verify"
    /\ UNCHANGED <<item, answer>>

(* verify and Publish: revalidateReport, structuralOK, ValidateReportV2 and*)
(* gateReport refuse; then the verdict is taken from the fact checks.      *)
Registered == HeldBy["supporter"] \cup HeldBy["challenger"]

revalidateReport ==
    \A a \in report.support \cup report.challenge :
        /\ a.cites \subseteq Registered
        /\ a.type = "material" => a.cites # {}

structuralOK == (report.quality = "completed") = (report.verdict # NoVerdict)

numberBound(a) == a.number = NoNumber \/ \E e \in a.cites : a.number \in Prints[e]

gateReport ==
    \A a \in report.support \cup report.challenge : a.type = "material" => numberBound(a)

Refuse ==
    /\ stage = "verify"
    /\ ~(revalidateReport /\ structuralOK /\ gateReport)
    /\ stage' = IF revalidateReport /\ structuralOK THEN "refused" ELSE "failed"
    /\ UNCHANGED <<item, answer, report>>

Publish ==
    /\ stage = "verify"
    /\ revalidateReport /\ structuralOK /\ gateReport
    /\ LET check == AdjudicateClaim(report.support, report.challenge)
       IN report' = [report EXCEPT !.check = check,
                                   !.verdict = IF report.quality = "completed"
                                                 THEN verdictFromFactChecks(check) ELSE @]
    /\ stage' = "published"
    /\ UNCHANGED <<item, answer>>

GateNext == Synthesize \/ Refuse \/ Publish

GateSpec == GateInit /\ [][GateNext]_rgVars

----------------------------------------------------------------------------
PublishedIsGrounded ==
    stage = "published" =>
        \A side \in {<<"supporter", report.support>>, <<"challenger", report.challenge>>} :
            \A a \in side[2] :
                /\ a \in answer[side[1]].args /\ a.cites \subseteq HeldBy[side[1]]
                /\ (a.type = "material" /\ a.number # NoNumber) =>
                       \E e \in a.cites : a.number \in Prints[e]

CitedBy(role) == {a \in answer[role].args : a.cites # {} /\ a.about = "claim"}

VerdictIsEarned ==
    (stage = "published" /\ report.verdict # NoVerdict) =>
        /\ \A r \in Roles : answer[r].outcome = "ran"
        /\ report.verdict = "supported" => CitedBy("supporter") # {} /\ CitedBy("challenger") = {}
        /\ report.verdict = "challenged" => CitedBy("challenger") # {}
        /\ item.outlook => report.verdict = "insufficient"

(* A published argument comes from the role it stands for, cites only      *)
(* evidence registered for that role's task, and states no material number *)
(* which that evidence does not contain.  A published verdict is earned:   *)
(* both roles ran to an end, "supported" means evidence of the supporter   *)
(* and none of the challenger about the claim, "challenged" means evidence *)
(* of the challenger, and no verdict is given on an outlook.               *)
PublishedIsEarned == PublishedIsGrounded /\ VerdictIsEarned
============================================================================
