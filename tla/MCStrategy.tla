----------------------------- MODULE MCStrategy -----------------------------
(***************************************************************************)
(* The strategy studio and the market data, one instance for TLC: drafts,  *)
(* backtests and their ledger, the strategy market, the rules of the       *)
(* editor and the snapshots of the market data.  `part` names the          *)
(* component that runs, the variables of the others stay as they are.      *)
(***************************************************************************)
EXTENDS StrategyDrafts, StrategyBacktests, BacktestLedger, StrategyMarket, MarketData

CONSTANTS RuleConds, BarValues, MaxBars, MaN, MaxLag, MaxCondNodes, MaxCondDepth
VARIABLES rule, rbars
R == INSTANCE StrategyRules

VARIABLE part

srVars == <<rule, rbars>>
stVars == <<part, sdVars, btVars, blVars, mkVars, srVars, mdVars>>

(* The market takes at most half of the volume of a bar. *)
MCShare(volume) == volume \div 2

(* The values of the constants that a cfg cannot write. *)
MCOwner == [r \in BtRuns |-> IF r < 3 THEN "u" ELSE "v"]

(* A simple leaf with its own continuity, a crossing of a moving average,  *)
(* and volume rules alone, negated and in groups.                          *)
MCLeaf(op, left, right, lag, repeat) ==
    [kind |-> "leaf", op |-> op, left |-> left, right |-> right, lag |-> lag, repeat |-> repeat]
MCRises(days, repeat) == [kind |-> "volume_increase", days |-> days, repeat |-> repeat]
MCNot(cond) == [kind |-> "not", item |-> cond]

MCConds ==
    LET over  == MCLeaf("gt", [ref |-> "close", lag |-> 0],
                        [ref |-> "constant", lag |-> 0, value |-> 2], 0, 2)
        cross == MCLeaf("crosses_above", [ref |-> "close", lag |-> 0],
                        [ref |-> "ma.ma", lag |-> 2], 1, 1)
    IN {over, cross, MCRises(1, 2), MCNot(MCRises(2, 1)),
        [kind |-> "all", items |-> <<MCRises(1, 1), cross>>],
        [kind |-> "any", items |-> <<over, MCNot(MCRises(1, 1))>>]}

(* Daily bars as traded, and weekly bars adjusted for dividends. *)
MCSeries == {<<"1d", "raw">>, <<"1w", "qfq">>}
MCDaily  == {<<"1d", "raw">>}

StrategyInit ==
    /\ part \in {"drafts", "backtests", "ledger", "market", "rules", "data"}
    /\ StudioInit /\ BacktestInit /\ EngineInit /\ MarketInit /\ DataInit
    /\ IF part = "rules" THEN R!Init ELSE rule = "none" /\ rbars = <<>>

StrategyNext ==
    \/ part = "drafts" /\ StudioNext /\ UNCHANGED <<part, btVars, blVars, mkVars, srVars, mdVars>>
    \/ part = "backtests" /\ BacktestNext /\ UNCHANGED <<part, sdVars, blVars, mkVars, srVars, mdVars>>
    \/ part = "ledger" /\ EngineNext /\ UNCHANGED <<part, sdVars, btVars, mkVars, srVars, mdVars>>
    \/ part = "market" /\ MarketNext /\ UNCHANGED <<part, sdVars, btVars, blVars, srVars, mdVars>>
    \/ part = "rules" /\ R!Next /\ UNCHANGED <<part, sdVars, btVars, blVars, mkVars, mdVars>>
    \/ part = "data" /\ DataNext /\ UNCHANGED <<part, sdVars, btVars, blVars, mkVars, srVars>>

StrategySpec == StrategyInit /\ [][StrategyNext]_stVars

----------------------------------------------------------------------------
\* The compiler of rules and the evaluator: once warm, a rule says what the editor shows.
RuleMeansWhatItShows == part = "rules" => R!RuleMeansWhatItShows
=============================================================================
