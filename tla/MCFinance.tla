----------------------------- MODULE MCFinance -----------------------------
(***************************************************************************)
(* The components around a research run, one instance for TLC: `part`      *)
(* names the component that runs, the variables of the others stay as they *)
(* are.  The components share no state in these models: what one relies on *)
(* in another is stated in its own module.                                 *)
(***************************************************************************)
EXTENDS ToolCalls, ModelCalls, FinanceConfig, ReportGate, DocumentSpans

VARIABLE part

fiVars == <<part, mcVars, toVars, cfVars, esVars, rgVars>>

(* The values of the constants that a cfg cannot write. *)
MCTaskRun == [t \in ToolTasks |-> CHOOSE r \in ToolRuns : TRUE]
MCLimits  == {-1}
MCHeldBy  == [supporter |-> {"e1"}, challenger |-> {"e1", "e2"}]
MCPrints  == [e1 |-> {7}, e2 |-> {}]
MCArgSets == {{}} \cup {{a} : a \in Argument}   \* one argument a role at most

FinanceInit ==
    /\ part \in {"model", "tools", "config", "spans", "gate"}
    /\ ProxyInit /\ ToolInit /\ ConfigInit
    /\ SpansInit
    /\ part # "spans" => extraction.kind = "txt"
    /\ IF part = "gate" THEN GateInit
       ELSE item = "none" /\ answer = "none" /\ report = "none" /\ stage = "none"

ModelStep ==
    /\ part = "model" /\ ProxyNext
    /\ UNCHANGED <<part, toVars, cfVars, esVars, rgVars>>

ToolStep ==
    /\ part = "tools" /\ ToolNext
    /\ UNCHANGED <<part, mcVars, cfVars, esVars, rgVars>>

ConfigStep ==
    /\ part = "config" /\ ConfigNext
    /\ UNCHANGED <<part, mcVars, toVars, esVars, rgVars>>

SpansStep ==
    /\ part = "spans" /\ SpansNext
    /\ UNCHANGED <<part, mcVars, toVars, cfVars, rgVars>>

GateStep ==
    /\ part = "gate" /\ GateNext
    /\ UNCHANGED <<part, mcVars, toVars, cfVars, esVars>>

FinanceNext == ModelStep \/ ToolStep \/ ConfigStep \/ SpansStep \/ GateStep

FinanceSpec == FinanceInit /\ [][FinanceNext]_fiVars

=============================================================================
