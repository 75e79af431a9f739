--------------------------- MODULE StrategyRules ---------------------------
(***************************************************************************)
(* The rule language of strategies (service/strategy): the editor's        *)
(* conditions are expanded to plain comparisons with lags and to           *)
(* continuity checks that are bound to nodes by their path (editor.go),    *)
(* checked and given their warm-up (dsl.go), and evaluated bar by bar      *)
(* (eval.go).  A bar is one number: its volume, and its close less one.    *)
(***************************************************************************)
EXTENDS Integers, Sequences, FiniteSets, FiniteSetsExt

CONSTANTS
    RuleConds, \* conditions of the editor
    BarValues, \* values of a bar
    MaxBars,   \* bound: bars
    MaN,       \* the window of the one indicator, ma.ma
    MaxLag, MaxCondNodes, MaxCondDepth \* 250, 100 and 8 in the code

VARIABLES
    rule,  \* [entry, exit]: conditions of an editor state
    rbars  \* the bars so far; the last one is evaluated

srVars == <<rule, rbars>>

----------------------------------------------------------------------------
(* shift of an operand, and the copies of a repeated node *)
Shift(operand, n) == IF operand.ref = "constant" THEN operand ELSE [operand EXCEPT !.lag = @ + n]

CombineCopies(copies) == IF Len(copies) = 1 THEN copies[1] ELSE [kind |-> "all", items |-> copies]

Leaf(op, left, right, lag) == [kind |-> "leaf", op |-> op, left |-> left, right |-> right, lag |-> lag]
Volume(lag) == [ref |-> "volume", lag |-> lag]

ExpandLeaf(c) ==
    CombineCopies([k \in 1 .. c.repeat |->
        Leaf(c.op, Shift(c.left, c.lag + k - 1), Shift(c.right, c.lag + k - 1), 0)])

Rising(days, base) ==
    [kind |-> "all", items |-> [j \in 1 .. days |-> Leaf("gt", Volume(base + j - 1), Volume(base + j), 0)]]

ExpandShortcut(c) == CombineCopies([k \in 1 .. c.repeat |-> Rising(c.days, k - 1)])

RECURSIVE ExpandCond(_)
ExpandCond(c) ==
    CASE c.kind \in {"all", "any"} -> [c EXCEPT !.items = [k \in DOMAIN @ |-> ExpandCond(@[k])]]
      [] c.kind = "not"            -> [c EXCEPT !.item = ExpandCond(@)]
      [] c.kind = "volume_increase" -> ExpandShortcut(c)
      [] OTHER                     -> ExpandLeaf(c)

JoinPath(path, seg) == Append(path, seg)
RelCheckPath(path) == Tail(path)

(* The continuity checks that the expansion leaves behind.                 *)
RECURSIVE ChecksOf(_, _)
ChecksOf(c, path) ==
    CASE c.kind \in {"all", "any"} ->
            UNION {ChecksOf(c.items[k], JoinPath(path, <<c.kind, k>>)) : k \in DOMAIN c.items}
      [] c.kind = "not"            -> ChecksOf(c.item, JoinPath(path, <<"not", 0>>))
      [] c.kind = "volume_increase" ->
            {[days |-> c.days, base |-> k, path |-> path] : k \in 0 .. c.repeat - 1}
      [] OTHER                     -> {}

EveryCheck(checks, root) == checks
ChecksUnder(checks, root) == {c \in checks : c.path[1] = root}

----------------------------------------------------------------------------
(* compile: what a document may be, and the bars it needs *)
RECURSIVE NodesOf(_)
NodesOf(d) ==
    CASE d.kind \in {"all", "any"} -> 1 + MapThenSumSet(LAMBDA k : NodesOf(d.items[k]), DOMAIN d.items)
      [] d.kind = "not"            -> 1 + NodesOf(d.item)
      [] OTHER                     -> 1

RECURSIVE DepthOf(_)
DepthOf(d) ==
    CASE d.kind \in {"all", "any"} -> 1 + Max({DepthOf(d.items[k]) : k \in DOMAIN d.items})
      [] d.kind = "not"            -> 1 + DepthOf(d.item)
      [] OTHER                     -> 0

RECURSIVE MaxCondLag(_)
MaxCondLag(d) ==
    CASE d.kind \in {"all", "any"} -> Max({MaxCondLag(d.items[k]) : k \in DOMAIN d.items})
      [] d.kind = "not"            -> MaxCondLag(d.item)
      [] OTHER                     -> Max({d.lag, d.left.lag, d.right.lag})

WalkCond(docs) ==
    /\ NodesOf(docs.entry) + NodesOf(docs.exit) <= MaxCondNodes
    /\ \A root \in DOMAIN docs : DepthOf(docs[root]) <= MaxCondDepth /\ MaxCondLag(docs[root]) <= MaxLag

(* CompileEditor *)
Document(r) == [root \in DOMAIN r |-> ExpandCond(r[root])]
Continuity(r) == UNION {ChecksOf(r[root], <<root>>) : root \in DOMAIN r}

WarmupBars(docs) == MaN + 1 + Max({MaxCondLag(docs[root]) : root \in DOMAIN docs})

Init ==
    /\ rule \in [{"entry", "exit"} -> RuleConds]
    /\ WalkCond(Document(rule))
    /\ rbars = <<>>

NextBar(v) ==
    /\ Len(rbars) < MaxBars
    /\ rbars' = Append(rbars, v)
    /\ UNCHANGED rule

Next == \E v \in BarValues : NextBar(v)

Spec == Init /\ [][Next]_srVars

----------------------------------------------------------------------------
(* Evaluation: bars are counted from 0.  A series has a value at a bar, or *)
(* it is not ready there; values are taken MaN-fold, as the average is.    *)
Average(i) == MapThenSumSet(LAMBDA k : rbars[k] + 1, i + 2 - MaN .. i + 1)

SeriesOf(ref, i) ==
    CASE ref = "volume" -> rbars[i + 1] * MaN
      [] ref = "close"  -> (rbars[i + 1] + 1) * MaN
      [] OTHER          -> Average(i)

Shifted(operand, i) == i - operand.lag
OperandReady(operand, i) ==
    \/ operand.ref = "constant"
    \/ Shifted(operand, i) >= (IF operand.ref = "ma.ma" THEN MaN - 1 ELSE 0)
Operand(operand, i) ==
    IF operand.ref = "constant" THEN operand.value * MaN ELSE SeriesOf(operand.ref, Shifted(operand, i))

CrossesAbove(left, right, i) ==
    /\ i >= 1 /\ OperandReady(left, i - 1) /\ OperandReady(right, i - 1)
    /\ Operand(left, i - 1) <= Operand(right, i - 1) /\ Operand(left, i) > Operand(right, i)

Compare(op, left, right, i) ==
    CASE op = "gt"  -> Operand(left, i) > Operand(right, i)
      [] op = "lte" -> Operand(left, i) <= Operand(right, i)
      [] op = "crosses_above" -> CrossesAbove(left, right, i)

CheckReady(c, i) == i - c.base - c.days >= 0
CheckContinuity(c, i) == \A k \in i - c.base - c.days .. i - c.base : rbars[k + 1] > 0

(* condAt: the checks of a node come first, the first that fails decides.  *)
RECURSIVE CondAt(_, _, _, _)
CondAt(d, i, path, checks) ==
    LET failing == {c \in checks : /\ RelCheckPath(c.path) = path
                                   /\ ~CheckReady(c, i) \/ ~CheckContinuity(c, i)}
        Item(k) == CondAt(d.items[k], i, JoinPath(path, <<d.kind, k>>), checks)
    IN  CASE failing # {} ->
                [v |-> FALSE,
                 ready |-> CheckReady(CHOOSE c \in failing : \A e \in failing : c.base <= e.base, i)]
          [] failing = {} /\ d.kind \in {"all", "any"} ->
                LET ready == \A k \in DOMAIN d.items : Item(k).ready IN
                [v |-> /\ ready
                       /\ IF d.kind = "all" THEN \A k \in DOMAIN d.items : Item(k).v
                                            ELSE \E k \in DOMAIN d.items : Item(k).v,
                 ready |-> ready]
          [] failing = {} /\ d.kind = "not" ->
                LET r == CondAt(d.item, i, JoinPath(path, <<"not", 0>>), checks) IN
                [v |-> ~r.v /\ r.ready, ready |-> r.ready]
          [] OTHER ->
                LET idx == i - d.lag
                    ready == idx >= 0 /\ OperandReady(d.left, idx) /\ OperandReady(d.right, idx)
                IN  [v |-> ready /\ Compare(d.op, d.left, d.right, idx), ready |-> ready]

EvalCondWithChecks(root, i) ==
    CondAt(Document(rule)[root], i, <<>>, ChecksUnder(Continuity(rule), root))

(* ConvertToEditor: the document of a saved version as an editor state;    *)
(* the checks of the version are no part of its document.                  *)
RECURSIVE ConvertToEditor(_)
ConvertToEditor(d) ==
    CASE d.kind \in {"all", "any"} -> [d EXCEPT !.items = [k \in DOMAIN @ |-> ConvertToEditor(@[k])]]
      [] d.kind = "not"            -> [d EXCEPT !.item = ConvertToEditor(@)]
      [] OTHER -> [kind |-> "leaf", op |-> d.op, left |-> d.left, right |-> d.right, lag |-> d.lag, repeat |-> 1]

----------------------------------------------------------------------------
(* What a condition of the editor says of bar i.                           *)
RECURSIVE Says(_, _)
Says(c, i) ==
    CASE c.kind = "all" -> \A k \in DOMAIN c.items : Says(c.items[k], i)
      [] c.kind = "any" -> \E k \in DOMAIN c.items : Says(c.items[k], i)
      [] c.kind = "not" -> ~Says(c.item, i)
      [] c.kind = "volume_increase" ->
            \A k \in 0 .. c.repeat - 1 :
                /\ \A j \in 0 .. c.days : rbars[i - k - j + 1] > 0
                /\ \A j \in 0 .. c.days - 1 : rbars[i - k - j + 1] > rbars[i - k - j]
      [] OTHER -> \A k \in 0 .. c.repeat - 1 : Compare(c.op, c.left, c.right, i - c.lag - k)

(* After the warm-up of its compiled document, a rule is ready at every    *)
(* bar, and then it says at entry and at exit what the editor shows: the   *)
(* expansion, its lags and the continuity checks bound to paths of the     *)
(* expanded tree change nothing, in whichever group or negation they are.  *)
RuleMeansWhatItShows ==
    LET i == Len(rbars) - 1 IN
    i >= WarmupBars(Document(rule)) =>
        \A root \in DOMAIN rule :
            EvalCondWithChecks(root, i) = [v |-> Says(rule[root], i), ready |-> TRUE]

(* A saved version that is opened as convertible and saved again is the    *)
(* same rule (hub.go says that compiling again loses the checks).          *)
ReopenedSaysTheSame ==
    LET i == Len(rbars) - 1
        docs == Document(rule)
        reopened == [root \in DOMAIN rule |-> ConvertToEditor(docs[root])]
    IN  i >= WarmupBars(docs) =>
            \A root \in DOMAIN rule :
                CondAt(Document(reopened)[root], i, <<>>, Continuity(reopened)).v = EvalCondWithChecks(root, i).v
============================================================================
