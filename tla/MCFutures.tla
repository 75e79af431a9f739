----------------------------- MODULE MCFutures -----------------------------
(***************************************************************************)
(* The futures module, one instance for TLC: tool grants, the budget       *)
(* ledger, hypotheses and their maintenance, the release gate, drafts with *)
(* their deletion, and the evidence of a run.  `part` names the component  *)
(* that runs, the variables of the others stay as they are.  The runs      *)
(* themselves, whose properties need fairness, are in MCPlatform.          *)
(***************************************************************************)
EXTENDS FuturesGrants, FuturesBudget, FuturesHypotheses, FuturesRelease, FuturesDrafts, FuturesEvidence

VARIABLE part

fuVars == <<part, fgVars, fbVars, fhVars, frlVars, fdVars, feVars>>

(* The values of the constants that a cfg cannot write: two users, the     *)
(* first with a tool call and a model call, the second with model calls.   *)
MCSpenderOf == [a \in Attempts |-> IF a \in {"a1", "a2"} THEN "u" ELSE "v"]
MCKindOf    == [a \in Attempts |-> IF a = "a1" THEN "tool" ELSE "model"]

FuturesInit ==
    /\ part \in {"grants", "budget", "hypotheses", "release", "drafts", "evidence"}
    /\ GrantInit /\ LedgerInit /\ HypothesisInit /\ ReleaseInit /\ DraftInit /\ EvidenceInit

FuturesNext ==
    \/ part = "grants" /\ GrantNext /\ UNCHANGED <<part, fbVars, fhVars, frlVars, fdVars, feVars>>
    \/ part = "budget" /\ LedgerNext /\ UNCHANGED <<part, fgVars, fhVars, frlVars, fdVars, feVars>>
    \/ part = "hypotheses" /\ HypothesisNext /\ UNCHANGED <<part, fgVars, fbVars, frlVars, fdVars, feVars>>
    \/ part = "release" /\ ReleaseNext /\ UNCHANGED <<part, fgVars, fbVars, fhVars, fdVars, feVars>>
    \/ part = "drafts" /\ DraftNext /\ UNCHANGED <<part, fgVars, fbVars, fhVars, frlVars, feVars>>
    \/ part = "evidence" /\ EvidenceNext /\ UNCHANGED <<part, fgVars, fbVars, fhVars, frlVars, fdVars>>

FuturesSpec == FuturesInit /\ [][FuturesNext]_fuVars
=============================================================================
