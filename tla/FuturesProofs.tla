--------------------------- MODULE FuturesProofs ---------------------------
(***************************************************************************)
(* The futures module, proved for all values of the constants: what a grant *)
(* opens, what an account holds, who closes a hypothesis, what goes live,  *)
(* what a key answers with, and what a report cites.                       *)
(***************************************************************************)
EXTENDS FuturesGrants, FuturesBudget, FuturesHypotheses, FuturesRelease, FuturesDrafts, FuturesEvidence,
        TLAPS, FiniteSetTheorems, WellFoundedInduction

----------------------------------------------------------------------------
(***************************************************************************)
(* Sums over finite sets.  The induction is over their subsets: among those *)
(* that refute a claim there is a smallest one.                            *)
(***************************************************************************)

\* Among sets of subsets of a finite set there is always a smallest one.
LEMMA SmallestSubset ==
    ASSUME NEW S, IsFiniteSet(S), NEW T, T \subseteq SUBSET S, T # {}
    PROVE  \E X \in T : \A Y \in T : ~(Y \subseteq X /\ Y # X)
<1>1. T \subseteq FiniteSubsetsOf(S)
  BY FS_Subset DEF FiniteSubsetsOf
<1>2. PICK X \in T : \A Y \in T : <<Y, X>> \notin StrictSubsetOrdering(S)
  BY <1>1, FS_StrictSubsetOrderingWellFounded, WFMin
<1>. QED
  BY <1>2 DEF StrictSubsetOrdering

\* The element the fold takes next, and what it does with it.
FirstOf(X) == CHOOSE x \in X : TRUE
RestOf(X)  == X \ {FirstOf(X)}
AddsUp(g, f, S) == g = [X \in SUBSET S |-> IF X = {} THEN 0 ELSE f[FirstOf(X)] + g[RestOf(X)]]

LEMMA RestIsLess == ASSUME NEW X, X # {} PROVE FirstOf(X) \in X /\ RestOf(X) \subseteq X /\ RestOf(X) # X
  BY DEF FirstOf, RestOf

LEMMA SumIs ==
    ASSUME NEW f, NEW S
    PROVE  SumFunctionOnSet(f, S) = (CHOOSE g : AddsUp(g, f, S))[S]
  BY DEF SumFunctionOnSet, FoldFunctionOnSet, MapThenFoldSet, AddsUp, FirstOf, RestOf

LEMMA AddsOnce ==
    ASSUME NEW f, NEW S, NEW R, IsFiniteSet(S), R \subseteq S, NEW g, NEW h, AddsUp(g, f, S), AddsUp(h, f, R)
    PROVE  \A X \in SUBSET R : g[X] = h[X]
<1> DEFINE T == {X \in SUBSET R : g[X] # h[X]}
<1> SUFFICES ASSUME T # {} PROVE FALSE
  OBVIOUS
<1>1. PICK X \in T : \A Y \in T : ~(Y \subseteq X /\ Y # X)
  <2>1. IsFiniteSet(R) /\ T \subseteq SUBSET R
    BY FS_Subset
  <2> HIDE DEF T
  <2>. QED
    BY <2>1, SmallestSubset
<1>2. X \in SUBSET S /\ X \in SUBSET R
  OBVIOUS
<1>3. g[X] = IF X = {} THEN 0 ELSE f[FirstOf(X)] + g[RestOf(X)]
  BY <1>2 DEF AddsUp
<1>4. h[X] = IF X = {} THEN 0 ELSE f[FirstOf(X)] + h[RestOf(X)]
  BY <1>2 DEF AddsUp
<1>5. CASE X # {}
  <2>1. RestOf(X) \in SUBSET R /\ RestOf(X) \notin T
    BY <1>1, <1>5, RestIsLess
  <2>. QED
    BY <1>3, <1>4, <2>1
<1>. QED
  BY <1>3, <1>4, <1>5

LEMMA AddsExists ==
    ASSUME NEW f, NEW S, IsFiniteSet(S)
    PROVE  \E g : AddsUp(g, f, S)
<1> DEFINE T == {X \in SUBSET S : ~\E g : AddsUp(g, f, X)}
<1> SUFFICES ASSUME T # {} PROVE FALSE
  OBVIOUS
<1>1. PICK X \in T : \A Y \in T : ~(Y \subseteq X /\ Y # X)
  <2>1. T \subseteq SUBSET S
    OBVIOUS
  <2> HIDE DEF T
  <2>. QED
    BY <2>1, SmallestSubset
<1>2. X \in SUBSET S /\ ~\E g : AddsUp(g, f, X)
  OBVIOUS
<1> DEFINE G(Y) == CHOOSE g : AddsUp(g, f, Y)
<1>3. ASSUME NEW Y \in SUBSET X, Y # X PROVE AddsUp(G(Y), f, Y) /\ IsFiniteSet(Y)
  <2>1. Y \notin T /\ Y \in SUBSET S
    BY <1>1, <1>2, <1>3
  <2>2. \E g : AddsUp(g, f, Y)
    BY <2>1
  <2>. QED
    BY <2>1, <2>2, FS_Subset
<1> DEFINE h == [Y \in SUBSET X |-> IF Y = {} THEN 0 ELSE f[FirstOf(Y)] + G(RestOf(Y))[RestOf(Y)]]
<1>4. ASSUME NEW Z \in SUBSET X, Z # X PROVE h[Z] = G(Z)[Z]
  <2>1. AddsUp(G(Z), f, Z) /\ IsFiniteSet(Z)
    BY <1>3, <1>4
  <2> HIDE DEF G
  <2>2. G(Z)[Z] = IF Z = {} THEN 0 ELSE f[FirstOf(Z)] + G(Z)[RestOf(Z)]
    BY <2>1 DEF AddsUp
  <2>3. CASE Z # {}
    <3>1. RestOf(Z) \subseteq Z /\ RestOf(Z) \in SUBSET X /\ RestOf(Z) # X
      BY <1>4, <2>3, RestIsLess
    <3>2. AddsUp(G(RestOf(Z)), f, RestOf(Z))
      BY <3>1, <1>3
    <3>3. G(Z)[RestOf(Z)] = G(RestOf(Z))[RestOf(Z)]
      BY <2>1, <3>1, <3>2, AddsOnce
    <3>. QED
      BY <2>2, <2>3, <3>3
  <2>. QED
    BY <2>2, <2>3
<1> HIDE DEF G
<1>5. ASSUME NEW Y \in SUBSET X, Y # {} PROVE h[Y] = f[FirstOf(Y)] + h[RestOf(Y)]
  <2>1. RestOf(Y) \in SUBSET X /\ RestOf(Y) # X
    BY <1>5, RestIsLess
  <2>2. h[Y] = f[FirstOf(Y)] + G(RestOf(Y))[RestOf(Y)]
    BY <1>5
  <2>. QED
    BY <2>1, <2>2, <1>4
<1>6. AddsUp(h, f, X)
  <2>1. \A Y \in SUBSET X : h[Y] = IF Y = {} THEN 0 ELSE f[FirstOf(Y)] + h[RestOf(Y)]
    BY <1>5
  <2>2. h = [Y \in SUBSET X |-> h[Y]]
    OBVIOUS
  <2> HIDE DEF h
  <2>. QED
    BY <2>1, <2>2 DEF AddsUp
<1>. QED
  BY <1>2, <1>6

LEMMA SumStep ==
    ASSUME NEW f, NEW S, IsFiniteSet(S)
    PROVE  SumFunctionOnSet(f, S) =
               IF S = {} THEN 0 ELSE f[FirstOf(S)] + SumFunctionOnSet(f, RestOf(S))
<1> DEFINE G(Y) == CHOOSE g : AddsUp(g, f, Y)
<1>1. AddsUp(G(S), f, S)
  BY AddsExists
<1>2. SumFunctionOnSet(f, S) = G(S)[S] /\ SumFunctionOnSet(f, RestOf(S)) = G(RestOf(S))[RestOf(S)]
  BY SumIs
<1> HIDE DEF G
<1>3. G(S)[S] = IF S = {} THEN 0 ELSE f[FirstOf(S)] + G(S)[RestOf(S)]
  BY <1>1 DEF AddsUp
<1>4. CASE S # {}
  <2>1. RestOf(S) \subseteq S /\ IsFiniteSet(RestOf(S))
    BY <1>4, RestIsLess, FS_Subset
  <2>2. AddsUp(G(RestOf(S)), f, RestOf(S))
    BY <2>1, AddsExists DEF G
  <2>3. G(S)[RestOf(S)] = G(RestOf(S))[RestOf(S)]
    BY <1>1, <2>1, <2>2, AddsOnce
  <2>. QED
    BY <1>2, <1>3, <1>4, <2>3
<1>. QED
  BY <1>2, <1>3, <1>4

LEMMA SumType ==
    ASSUME NEW S, IsFiniteSet(S), NEW f, \A x \in S : f[x] \in Int
    PROVE  SumFunctionOnSet(f, S) \in Int
<1> DEFINE T == {X \in SUBSET S : SumFunctionOnSet(f, X) \notin Int}
<1> SUFFICES ASSUME T # {} PROVE FALSE
  OBVIOUS
<1>1. PICK X \in T : \A Y \in T : ~(Y \subseteq X /\ Y # X)
  <2>1. T \subseteq SUBSET S
    OBVIOUS
  <2> HIDE DEF T
  <2>. QED
    BY <2>1, SmallestSubset
<1>2. SumFunctionOnSet(f, X) = IF X = {} THEN 0 ELSE f[FirstOf(X)] + SumFunctionOnSet(f, RestOf(X))
  <2>1. IsFiniteSet(X)
    BY FS_Subset
  <2>. QED
    BY <2>1, SumStep
<1>3. CASE X # {}
  <2>1. FirstOf(X) \in S /\ RestOf(X) \in SUBSET S /\ RestOf(X) \notin T
    BY <1>1, <1>3, RestIsLess
  <2>. QED
    BY <1>2, <1>3, <2>1
<1>. QED
  BY <1>2, <1>3

\* The sum looks at its indices only.
LEMMA SumSame ==
    ASSUME NEW S, IsFiniteSet(S), NEW f, NEW g, \A x \in S : f[x] = g[x]
    PROVE  SumFunctionOnSet(f, S) = SumFunctionOnSet(g, S)
<1> DEFINE T == {X \in SUBSET S : SumFunctionOnSet(f, X) # SumFunctionOnSet(g, X)}
<1> SUFFICES ASSUME T # {} PROVE FALSE
  OBVIOUS
<1>1. PICK X \in T : \A Y \in T : ~(Y \subseteq X /\ Y # X)
  <2>1. T \subseteq SUBSET S
    OBVIOUS
  <2> HIDE DEF T
  <2>. QED
    BY <2>1, SmallestSubset
<1>2. /\ SumFunctionOnSet(f, X) = IF X = {} THEN 0 ELSE f[FirstOf(X)] + SumFunctionOnSet(f, RestOf(X))
      /\ SumFunctionOnSet(g, X) = IF X = {} THEN 0 ELSE g[FirstOf(X)] + SumFunctionOnSet(g, RestOf(X))
  <2>1. IsFiniteSet(X)
    BY FS_Subset
  <2>. QED
    BY <2>1, SumStep
<1>3. CASE X # {}
  <2>1. FirstOf(X) \in S /\ RestOf(X) \in SUBSET S /\ RestOf(X) \notin T
    BY <1>1, <1>3, RestIsLess
  <2>. QED
    BY <1>2, <1>3, <2>1
<1>. QED
  BY <1>2, <1>3

\* In whatever order the fold takes them, one index can be split off.
LEMMA SumSplit ==
    ASSUME NEW S, IsFiniteSet(S), NEW f, \A x \in S : f[x] \in Int, NEW i \in S
    PROVE  SumFunctionOnSet(f, S) = f[i] + SumFunctionOnSet(f, S \ {i})
<1> DEFINE Sum(X) == SumFunctionOnSet(f, X)
           T == {X \in SUBSET S : \E x \in X : Sum(X) # f[x] + Sum(X \ {x})}
<1> SUFFICES ASSUME T # {} PROVE FALSE
  OBVIOUS
<1>1. PICK X \in T : \A Y \in T : ~(Y \subseteq X /\ Y # X)
  <2>1. T \subseteq SUBSET S
    OBVIOUS
  <2> HIDE DEF T
  <2>. QED
    BY <2>1, SmallestSubset
<1>2. PICK x \in X : Sum(X) # f[x] + Sum(X \ {x})
  OBVIOUS
<1> DEFINE c == FirstOf(X)
<1>3. c \in X /\ RestOf(X) = X \ {c} /\ RestOf(X) \in SUBSET S
  BY <1>2, RestIsLess DEF RestOf
<1>4. \A Y \in SUBSET S : IsFiniteSet(Y) /\ Sum(Y) \in Int
  BY FS_Subset, SumType
<1>5. Sum(X) = f[c] + Sum(X \ {c})
  BY <1>3, <1>4, SumStep
<1> HIDE DEF c, Sum
<1>6. CASE x # c
  <2>1. /\ X \ {c} \in SUBSET S /\ X \ {c} \notin T /\ x \in X \ {c}
        /\ X \ {x} \in SUBSET S /\ X \ {x} \notin T /\ c \in X \ {x}
    BY <1>1, <1>3, <1>6
  <2>2. Sum(X \ {c}) = f[x] + Sum((X \ {c}) \ {x}) /\ Sum(X \ {x}) = f[c] + Sum((X \ {x}) \ {c})
    BY <2>1
  <2>3. (X \ {c}) \ {x} = (X \ {x}) \ {c} /\ (X \ {x}) \ {c} \in SUBSET S
    OBVIOUS
  <2>4. f[x] \in Int /\ f[c] \in Int /\ Sum((X \ {x}) \ {c}) \in Int
    BY <1>3, <1>4, <2>3
  <2>5. Sum(X \ {c}) = f[x] + Sum((X \ {x}) \ {c})
    BY <2>2, <2>3
  <2>6. f[c] + (f[x] + Sum((X \ {x}) \ {c})) = f[x] + (f[c] + Sum((X \ {x}) \ {c}))
    BY <2>4
  <2>. QED
    BY <1>2, <1>5, <2>2, <2>5, <2>6
<1>. QED
  BY <1>2, <1>5, <1>6

LEMMA SumEmpty == ASSUME NEW f PROVE SumFunctionOnSet(f, {}) = 0
  BY SumStep, FS_EmptySet

----------------------------------------------------------------------------
(***************************************************************************)
(* FuturesGrants: a grant opens one call.  The property speaks of requests *)
(* that passed both looks at the lease; what is inductive is that a request *)
(* which has come past Consume owns its grant, whatever becomes of the lease. *)
(***************************************************************************)

AnyArgs  == ArgsSet \cup {NoGrant.args, NotSent.args}
AnyToken == Tokens \cup {NotSent.token}

GrantRow == [issued : BOOLEAN, args : AnyArgs, late : BOOLEAN, consumed : BOOLEAN]
UseState == [pc : {"idle", "consume", "recheck", "run", "refused", "done", "failed"},
             token : AnyToken, args : AnyArgs, ok : BOOLEAN]

GrantTyped == lease \in BOOLEAN /\ grant \in [Tokens -> GrantRow] /\ used \in [Requests -> UseState]

\* Consume gave its grant to q.
Owns(q) == used[q].pc \in {"recheck", "run"} \/ used[q].ok

Owned(q) ==
    LET k == used[q].token IN
    k \in Tokens /\ grant[k].issued /\ grant[k].consumed /\ grant[k].args = used[q].args

Apart == \A p, q \in Requests : Owns(p) /\ Owns(q) /\ p # q => used[p].token # used[q].token

Peeked == \A q \in Requests : used[q].pc = "consume" =>
              /\ used[q].token \in Tokens /\ grant[used[q].token].issued
              /\ ~used[q].ok

GrantInv == GrantTyped /\ Peeked /\ (\A q \in Requests : Owns(q) => Owned(q)) /\ Apart

LEMMA GrantInitInv == GrantInit => GrantInv
  BY DEF GrantInit, GrantInv, GrantTyped, Peeked, Owns, Owned, Apart, NoGrant, NotSent, GrantRow, UseState, AnyArgs, AnyToken

\* Steps that leave the requests alone: they may issue a grant or let it grow old, and a
\* grant that has been issued keeps its arguments and its mark.
LEMMA GrantsMove ==
    ASSUME GrantInv, UNCHANGED used, grant' \in [Tokens -> GrantRow], lease' \in BOOLEAN,
           \A k \in Tokens : grant[k].issued =>
               /\ grant'[k].issued /\ grant'[k].args = grant[k].args
               /\ grant'[k].consumed = grant[k].consumed
    PROVE  GrantInv'
  BY DEF GrantInv, GrantTyped, Peeked, Owns, Owned, Apart

\* Steps of one request that leave the grants alone and take no grant.
LEMMA RequestMoves ==
    ASSUME GrantInv, UNCHANGED <<lease, grant>>, NEW q \in Requests, NEW u \in UseState,
           used' = [used EXCEPT ![q] = u],
           u.pc \in {"recheck", "run"} \/ u.ok => Owns(q) /\ u.token = used[q].token /\ u.args = used[q].args,
           u.pc = "consume" => u.token \in Tokens /\ grant[u.token].issued /\ ~u.ok
    PROVE  GrantInv'
<1>1. used'[q] = u /\ \A p \in Requests : p # q => used'[p] = used[p]
  BY DEF GrantInv, GrantTyped
<1>2. GrantTyped'
  BY DEF GrantInv, GrantTyped
<1>3. \A p \in Requests : Owns(p)' => Owns(p) /\ used'[p].token = used[p].token /\ used'[p].args = used[p].args
  BY <1>1 DEF Owns
<1>4. Peeked'
  BY <1>1 DEF GrantInv, Peeked
<1>5. \A p \in Requests : Owns(p)' => Owned(p)'
  BY <1>3 DEF GrantInv, Owned
<1>6. Apart'
  BY <1>3 DEF GrantInv, Apart
<1>. QED
  BY <1>2, <1>4, <1>5, <1>6 DEF GrantInv

\* Consume on a grant that nobody has consumed: no other request can own it.
LEMMA ConsumeTakes ==
    ASSUME GrantInv, NEW q \in Requests, Consume(q), Spendable(used[q].token)
    PROVE  GrantInv'
<1> DEFINE k == used[q].token
<1>1. k \in Tokens /\ grant[k].issued /\ ~grant[k].consumed /\ ~used[q].ok
  BY DEF GrantInv, Peeked, Consume, Spendable
<1> DEFINE g == [grant[k] EXCEPT !.consumed = TRUE]
           pc == IF grant[k].args = used[q].args /\ ~grant[k].late THEN "recheck" ELSE "refused"
           u == [used[q] EXCEPT !.pc = pc]
<1>2. grant' = [grant EXCEPT ![k] = g] /\ used' = [used EXCEPT ![q] = u] /\ UNCHANGED lease
  BY DEF Consume, Goto, Spendable
<1>g. g \in GrantRow /\ g.issued /\ g.consumed /\ g.args = grant[k].args
  BY <1>1 DEF GrantInv, GrantTyped, GrantRow
<1>u. /\ u \in UseState /\ u.token = k /\ u.args = used[q].args /\ ~u.ok
      /\ u.pc \in {"recheck", "refused"} /\ (u.pc = "recheck" => grant[k].args = used[q].args)
  BY <1>1 DEF GrantInv, GrantTyped, UseState
<1> HIDE DEF g, u
<1>3. GrantTyped'
  BY <1>1, <1>2, <1>g, <1>u DEF GrantInv, GrantTyped
<1>4. /\ grant'[k].issued /\ grant'[k].consumed /\ grant'[k].args = grant[k].args
      /\ \A j \in Tokens : j # k => grant'[j] = grant[j]
  BY <1>1, <1>2, <1>g DEF GrantInv, GrantTyped
<1>5. /\ \A p \in Requests : p # q => used'[p] = used[p]
      /\ used'[q].token = k /\ used'[q].args = used[q].args /\ ~used'[q].ok
      /\ used'[q].pc \in {"recheck", "refused"}
      /\ used'[q].pc = "recheck" => grant[k].args = used[q].args
  BY <1>2, <1>u DEF GrantInv, GrantTyped
<1>6. Peeked'
  BY <1>4, <1>5 DEF GrantInv, Peeked
<1>7. ASSUME NEW p \in Requests, p # q, Owns(p)' PROVE Owned(p)' /\ used'[p].token # k
  <2>1. Owns(p) /\ Owned(p)
    BY <1>5, <1>7 DEF GrantInv, Owns
  <2>. QED
    BY <2>1, <1>1, <1>4, <1>5, <1>7 DEF Owned
<1>8. Owns(q)' => Owned(q)'
  BY <1>1, <1>4, <1>5 DEF Owns, Owned
<1>9. Apart'
  <2>1. ASSUME NEW p \in Requests, NEW r \in Requests, p # q, r # q, p # r, Owns(p)', Owns(r)'
        PROVE  used'[p].token # used'[r].token
    BY <2>1, <1>5 DEF GrantInv, Apart, Owns
  <2>. QED
    BY <2>1, <1>5, <1>7 DEF Apart
<1>. QED
  BY <1>3, <1>6, <1>7, <1>8, <1>9 DEF GrantInv

LEMMA GrantStepInv == GrantInv /\ [GrantNext]_fgVars => GrantInv'
<1> SUFFICES ASSUME GrantInv, [GrantNext]_fgVars PROVE GrantInv'
  OBVIOUS
<1>1. CASE RunCloses \/ UNCHANGED fgVars
  BY <1>1, GrantsMove DEF RunCloses, fgVars, GrantInv, GrantTyped
<1>2. ASSUME NEW k \in Tokens, NEW a \in ArgsSet, Issue(k, a) PROVE GrantInv'
  <2>1. [NoGrant EXCEPT !.issued = TRUE, !.args = a] \in GrantRow
    BY DEF NoGrant, GrantRow, AnyArgs
  <2>. QED
    BY <1>2, <2>1, GrantsMove DEF Issue, GrantInv, GrantTyped
<1>3. ASSUME NEW k \in Tokens, GrantExpires(k) PROVE GrantInv'
  <2>1. lease' \in BOOLEAN /\ grant' \in [Tokens -> GrantRow]
    BY <1>3 DEF GrantExpires, GrantInv, GrantTyped, GrantRow
  <2>2. \A j \in Tokens : /\ grant'[j].issued = grant[j].issued /\ grant'[j].args = grant[j].args
                          /\ grant'[j].consumed = grant[j].consumed
    BY <1>3 DEF GrantExpires, GrantInv, GrantTyped, GrantRow
  <2>. QED
    BY <1>3, <2>1, <2>2, GrantsMove DEF GrantExpires
<1>4. ASSUME NEW q \in Requests, NEW k \in Tokens, NEW a \in ArgsSet, Peek(q, k, a) PROVE GrantInv'
  <2> DEFINE u == [NotSent EXCEPT !.token = k, !.args = a,
                     !.pc = IF grant[k].issued /\ CheckLease THEN "consume" ELSE "refused"]
  <2>1. /\ u \in UseState /\ u.token = k /\ ~u.ok
        /\ u.pc \in {"consume", "refused"} /\ (u.pc = "consume" => grant[k].issued)
    BY DEF NotSent, UseState, AnyArgs, AnyToken
  <2>2. used' = [used EXCEPT ![q] = u] /\ UNCHANGED <<lease, grant>>
    BY <1>4 DEF Peek
  <2> HIDE DEF u
  <2>. QED
    BY <2>1, <2>2, RequestMoves
<1>5. ASSUME NEW q \in Requests, Consume(q) PROVE GrantInv'
  <2>1. CASE Spendable(used[q].token)
    BY <1>5, <2>1, ConsumeTakes
  <2>2. CASE ~Spendable(used[q].token)
    <3> DEFINE u == [used[q] EXCEPT !.pc = "refused"]
    <3>1. used' = [used EXCEPT ![q] = u] /\ UNCHANGED <<lease, grant>>
      BY <1>5, <2>2 DEF Consume, Goto
    <3>2. u \in UseState /\ u.pc = "refused" /\ ~u.ok
      BY <1>5 DEF GrantInv, GrantTyped, Peeked, Consume, UseState
    <3> HIDE DEF u
    <3>. QED
      BY <3>1, <3>2, RequestMoves
  <2>. QED
    BY <2>1, <2>2
<1>6. ASSUME NEW q \in Requests, Recheck(q) PROVE GrantInv'
  <2> DEFINE u == [used[q] EXCEPT !.pc = IF lease THEN "run" ELSE "refused", !.ok = lease]
  <2>1. used' = [used EXCEPT ![q] = u] /\ UNCHANGED <<lease, grant>> /\ Owns(q)
    BY <1>6 DEF Recheck, Owns, CheckLease
  <2>2. u \in UseState /\ u.pc # "consume" /\ u.token = used[q].token /\ u.args = used[q].args
    BY DEF GrantInv, GrantTyped, UseState
  <2> HIDE DEF u
  <2>. QED
    BY <2>1, <2>2, RequestMoves
<1>7. ASSUME NEW q \in Requests, RunTool(q) PROVE GrantInv'
  <2>1. PICK pc \in {"done", "failed"} : used' = [used EXCEPT ![q].pc = pc]
    BY <1>7 DEF RunTool, Goto
  <2> DEFINE u == [used[q] EXCEPT !.pc = pc]
  <2>2. used' = [used EXCEPT ![q] = u] /\ UNCHANGED <<lease, grant>> /\ Owns(q)
    BY <1>7, <2>1 DEF RunTool, Owns
  <2>3. u \in UseState /\ u.pc \notin {"consume", "recheck", "run"} /\ u.token = used[q].token /\ u.args = used[q].args
    BY <2>1 DEF GrantInv, GrantTyped, UseState
  <2> HIDE DEF u
  <2>. QED
    BY <2>2, <2>3, RequestMoves
<1>. QED
  BY <1>1, <1>2, <1>3, <1>4, <1>5, <1>6, <1>7 DEF GrantNext

\* Use: however the requests of the executor cross, a grant opens at most one call, and
\* only with the arguments it was issued for (grants.go).
THEOREM OneCall == GrantSpec => []GrantOpensOneCall
<1>1. GrantInv => GrantOpensOneCall
  BY DEF GrantInv, Owns, Owned, Apart, GrantOpensOneCall
<1>. QED
  BY <1>1, GrantInitInv, GrantStepInv, PTL DEF GrantSpec

----------------------------------------------------------------------------
(***************************************************************************)
(* FuturesBudget: the accounts of a day balance, and their caps hold.      *)
(***************************************************************************)

LEMMA SumIsNat ==
    ASSUME NEW S, IsFiniteSet(S), NEW f, \A x \in S : f[x] \in Nat
    PROVE  SumFunctionOnSet(f, S) \in Nat
<1> DEFINE T == {X \in SUBSET S : SumFunctionOnSet(f, X) \notin Nat}
<1> SUFFICES ASSUME T # {} PROVE FALSE
  OBVIOUS
<1>1. PICK X \in T : \A Y \in T : ~(Y \subseteq X /\ Y # X)
  <2>1. T \subseteq SUBSET S
    OBVIOUS
  <2>. HIDE DEF T
  <2>. QED
    BY <2>1, SmallestSubset
<1>2. IsFiniteSet(X) /\ X \subseteq S
  BY FS_Subset
<1>3. X # {}
  BY SumEmpty
<1>4. SumFunctionOnSet(f, X) = f[FirstOf(X)] + SumFunctionOnSet(f, RestOf(X))
  BY <1>2, <1>3, SumStep
<1>5. RestOf(X) \notin T /\ RestOf(X) \subseteq S /\ f[FirstOf(X)] \in Nat
  BY <1>1, <1>2, <1>3, RestIsLess
<1>6. SumFunctionOnSet(f, RestOf(X)) \in Nat
  BY <1>5
<1>. QED
  BY <1>4, <1>5, <1>6

LEMMA SumAdds ==
    ASSUME NEW S, IsFiniteSet(S), NEW f, NEW g, NEW i, i \notin S,
           \A x \in S : f[x] \in Int /\ g[x] = f[x], g[i] \in Int
    PROVE  SumFunctionOnSet(g, S \cup {i}) = SumFunctionOnSet(f, S) + g[i]
<1>1. IsFiniteSet(S \cup {i}) /\ (S \cup {i}) \ {i} = S /\ \A x \in S \cup {i} : g[x] \in Int
  BY FS_AddElement
<1>2. SumFunctionOnSet(g, S \cup {i}) = g[i] + SumFunctionOnSet(g, S)
  BY <1>1, SumSplit
<1>3. SumFunctionOnSet(g, S) = SumFunctionOnSet(f, S)
  BY SumSame
<1>4. SumFunctionOnSet(f, S) \in Int
  BY SumType
<1>. QED
  BY <1>2, <1>3, <1>4

----------------------------------------------------------------------------
CallCount == [{"model", "tool"} -> Int]
AccountRows == [seeded : BOOLEAN, reserved : Int, spent : Int, calls : CallCount, limit : CallCount]
AttemptRows == [pc : {"idle", "reserve", "refused", "call", "done", "lost"},
                state : {"none", "reserved", "settled", "unknown"}, amount : Nat, actual : Nat]
LedgerTyped ==
    /\ account \in [Accounts -> AccountRows]
    /\ attempt \in [Attempts -> AttemptRows]

Begun == {a \in Attempts : attempt[a].state # "none"}

Attempted ==
    /\ IsFiniteSet(Begun)
    /\ \A a \in Attempts :
          /\ attempt[a].pc \in {"idle", "reserve", "refused"} => attempt[a].state = "none"
          /\ attempt[a].pc # "idle" => \A c \in AccountsOf(a) : account[c].seeded
    /\ \A c \in Accounts : ~account[c].seeded => account[c].reserved = 0 /\ account[c].spent = 0

LedgerInv == LedgerTyped /\ Attempted /\ LedgerBalances

LEMMA LedgerDomains ==
    /\ \A a \in Attempts : KindOf[a] \in {"model", "tool"} /\ AccountsOf(a) \subseteq Accounts
    /\ \A a \in Attempts : Costs(a) \subseteq Nat
    /\ \A c : CapOf(c) \in Nat
  BY LedgerAssumption DEF AccountsOf, Accounts, Costs, CapOf

\* An account row after a booking, and after a settlement.
BookedRow(r, k, amount)       == [r EXCEPT !.reserved = @ + amount, !.calls[k] = @ + 1]
SettledRow(r, amount, actual) == [r EXCEPT !.reserved = @ - amount, !.spent = @ + actual]

LEMMA RowBooked ==
    ASSUME NEW r \in AccountRows, NEW amount \in Int, NEW k \in {"model", "tool"}
    PROVE  /\ BookedRow(r, k, amount) \in AccountRows
           /\ BookedRow(r, k, amount).reserved = r.reserved + amount
           /\ BookedRow(r, k, amount).spent = r.spent
           /\ BookedRow(r, k, amount).seeded = r.seeded
<1>1. r.reserved + amount \in Int /\ r.calls[k] + 1 \in Int /\ r.calls \in CallCount
  BY DEF AccountRows, CallCount
<1>2. [r.calls EXCEPT ![k] = r.calls[k] + 1] \in CallCount
  BY <1>1 DEF CallCount
<1>. QED
  BY <1>1, <1>2 DEF AccountRows, BookedRow

LEMMA RowSettled ==
    ASSUME NEW r \in AccountRows, NEW amount \in Int, NEW actual \in Int
    PROVE  /\ SettledRow(r, amount, actual) \in AccountRows
           /\ SettledRow(r, amount, actual).reserved = r.reserved - amount
           /\ SettledRow(r, amount, actual).spent = r.spent + actual
           /\ SettledRow(r, amount, actual).seeded = r.seeded
<1>1. r.reserved - amount \in Int /\ r.spent + actual \in Int
  BY DEF AccountRows
<1>. QED
  BY <1>1 DEF AccountRows, SettledRow

LEMMA BookedRows ==
    ASSUME LedgerTyped, NEW a \in Attempts, NEW amount \in Int, account' = Booked(a, amount)
    PROVE  /\ account' \in [Accounts -> AccountRows]
           /\ \A c \in Accounts : account'[c].seeded = account[c].seeded
           /\ \A c \in Accounts \ AccountsOf(a) : account'[c] = account[c]
           /\ \A c \in AccountsOf(a) : /\ account'[c].reserved = account[c].reserved + amount
                                      /\ account'[c].spent = account[c].spent
<1>1. \A c \in Accounts : account[c] \in AccountRows
  BY DEF LedgerTyped, AttemptRows
<1>2. account' = [c \in Accounts |-> IF c \in AccountsOf(a) THEN BookedRow(account[c], KindOf[a], amount)
                                                           ELSE account[c]]
  BY DEF Booked, BookedRow
<1>3. KindOf[a] \in {"model", "tool"} /\ AccountsOf(a) \subseteq Accounts
  BY LedgerDomains
<1>. QED
  BY <1>1, <1>2, <1>3, RowBooked

LEMMA SettledRows ==
    ASSUME LedgerTyped, NEW a \in Attempts, SettleKnown(a)
    PROVE  \E actual \in Costs(a) :
              /\ attempt' = [attempt EXCEPT ![a].pc = "done", ![a].state = "settled", ![a].actual = actual]
              /\ account' \in [Accounts -> AccountRows]
              /\ \A c \in Accounts : account'[c].seeded = account[c].seeded
              /\ \A c \in Accounts \ AccountsOf(a) : account'[c] = account[c]
              /\ \A c \in AccountsOf(a) : /\ account'[c].reserved = account[c].reserved - attempt[a].amount
                                         /\ account'[c].spent = account[c].spent + actual
<1>1. PICK actual \in Costs(a) :
          /\ account' = [c \in Accounts |-> IF c \in AccountsOf(a)
                           THEN SettledRow(account[c], attempt[a].amount, actual) ELSE account[c]]
          /\ attempt' = [attempt EXCEPT ![a].pc = "done", ![a].state = "settled", ![a].actual = actual]
  BY DEF SettleKnown, SettledRow
<1>2. \A c \in Accounts : account[c] \in AccountRows
  BY DEF LedgerTyped, AttemptRows
<1>3. actual \in Int /\ attempt[a].amount \in Int /\ AccountsOf(a) \subseteq Accounts
  BY LedgerDomains DEF LedgerTyped, AttemptRows
<1>. QED
  BY <1>1, <1>2, <1>3, RowSettled

LEMMA LedgerValues ==
    ASSUME LedgerTyped, NEW a \in Attempts
    PROVE  Amounts[a] \in Nat /\ Actuals[a] \in Nat /\ Overruns[a] \in Nat
<1>1. attempt[a].amount \in Nat /\ attempt[a].actual \in Nat
  BY DEF LedgerTyped, AttemptRows
<1>2. attempt[a].actual > attempt[a].amount => attempt[a].actual - attempt[a].amount \in Nat
  BY <1>1
<1>3. Amounts[a] \in Nat /\ Actuals[a] \in Nat
  BY <1>1 DEF Amounts, Actuals
<1>4. Overruns[a] \in Nat
  BY <1>2 DEF Overruns
<1>. QED
  BY <1>3, <1>4

LEMMA LedgerSame ==
    ASSUME NEW a \in Attempts, attempt'[a] = attempt[a]
    PROVE  Amounts'[a] = Amounts[a] /\ Actuals'[a] = Actuals[a] /\ Overruns'[a] = Overruns[a]
  BY DEF Amounts, Actuals, Overruns

LEMMA LedgerInitInv == ASSUME LedgerInit PROVE LedgerInv
<1>1. LedgerTyped
  BY DEF LedgerInit, LedgerTyped, AttemptRows, Unseeded, NoAttempt, CallCount, AccountRows
<1>2. Begun = {} /\ \A c, states : "none" \notin states => Drawn(c, states) = {}
  BY DEF Begun, Drawn, LedgerInit, NoAttempt
<1>3. Attempted
  BY <1>2, FS_EmptySet DEF Attempted, LedgerInit, NoAttempt, Unseeded
<1>4. ASSUME NEW c \in Accounts PROVE Balanced(c) /\ CapHolds(c)
  <2>1. Drawn(c, {"reserved", "unknown"}) = {} /\ Drawn(c, {"settled"}) = {}
    BY <1>2
  <2>2. account[c].reserved = 0 /\ account[c].spent = 0
    BY DEF LedgerInit, Unseeded
  <2>3. /\ SumFunctionOnSet(Amounts, {}) = 0 /\ SumFunctionOnSet(Actuals, {}) = 0
        /\ SumFunctionOnSet(Overruns, {}) = 0
    BY SumEmpty
  <2>4. CapOf(c) \in Nat
    BY LedgerDomains
  <2>. QED
    BY <2>1, <2>2, <2>3, <2>4 DEF Balanced, CapHolds
<1>. QED
  BY <1>1, <1>3, <1>4 DEF LedgerInv, LedgerBalances

\* What an account holds depends on the reservations drawn on it alone.
LEMMA SameBalance ==
    ASSUME LedgerInv, NEW c \in Accounts,
           account'[c].reserved = account[c].reserved, account'[c].spent = account[c].spent,
           \A b \in Attempts : c \in AccountsOf(b) =>
               /\ attempt'[b].amount = attempt[b].amount /\ attempt'[b].actual = attempt[b].actual
               /\ \/ attempt'[b].state = attempt[b].state
                  \/ attempt[b].state = "reserved" /\ attempt'[b].state = "unknown"
    PROVE  (Balanced(c) /\ CapHolds(c))'
<1> DEFINE O == Drawn(c, {"reserved", "unknown"})
           D == Drawn(c, {"settled"})
<1>1. O' = O /\ D' = D
  BY DEF Drawn
<1>2. O \subseteq Begun /\ D \subseteq Begun
  BY DEF Drawn, Begun
<1>3. IsFiniteSet(O) /\ IsFiniteSet(D)
  BY <1>2, FS_Subset DEF LedgerInv, Attempted
<1>4. /\ \A b \in O : Amounts'[b] = Amounts[b]
      /\ \A b \in D : Actuals'[b] = Actuals[b] /\ Overruns'[b] = Overruns[b]
  BY DEF Drawn, Amounts, Actuals, Overruns
<1>5. /\ SumFunctionOnSet(Amounts', O) = SumFunctionOnSet(Amounts, O)
      /\ SumFunctionOnSet(Actuals', D) = SumFunctionOnSet(Actuals, D)
      /\ SumFunctionOnSet(Overruns', D) = SumFunctionOnSet(Overruns, D)
  <2>. HIDE DEF O, D
  <2>. QED
    BY <1>3, <1>4, SumSame
<1>6. Balanced(c) /\ CapHolds(c)
  BY DEF LedgerInv, LedgerBalances
<1>. QED
  BY <1>1, <1>5, <1>6 DEF Balanced, CapHolds

LEMMA ReserveBalances ==
    ASSUME LedgerInv, NEW a \in Attempts, NEW amount \in Nat, NEW c \in AccountsOf(a),
           attempt[a].state = "none", attempt[a].pc = "reserve",
           Affordable(a, amount),
           account'[c].reserved = account[c].reserved + amount,
           account'[c].spent = account[c].spent,
           attempt'[a].amount = amount, attempt'[a].state = "reserved",
           \A b \in Attempts : b # a => attempt'[b] = attempt[b]
    PROVE  (Balanced(c) /\ CapHolds(c))'
<1> DEFINE O == Drawn(c, {"reserved", "unknown"})
           D == Drawn(c, {"settled"})
<1>0. c \in Accounts
  BY LedgerDomains
<1>c. account[c].reserved \in Int /\ account[c].spent \in Int
  BY <1>0 DEF LedgerInv, LedgerTyped, AccountRows, AttemptRows
<1>1. O' = O \cup {a} /\ a \notin O /\ D' = D /\ a \notin D
  BY DEF Drawn
<1>2. O \subseteq Begun /\ D \subseteq Begun
  BY DEF Drawn, Begun
<1>3. IsFiniteSet(O) /\ IsFiniteSet(D)
  BY <1>2, FS_Subset DEF LedgerInv, Attempted
<1>4. /\ \A b \in O : Amounts'[b] = Amounts[b] /\ Amounts[b] \in Int
      /\ Amounts'[a] = amount
      /\ \A b \in D : Actuals'[b] = Actuals[b]
      /\ \A b \in D : Overruns'[b] \in Nat
  <2>1. \A b \in Attempts : Amounts[b] \in Nat /\ Overruns[b] \in Nat
    BY LedgerValues DEF LedgerInv
  <2>2. \A b \in Attempts : b # a => Amounts'[b] = Amounts[b] /\ Actuals'[b] = Actuals[b]
                                   /\ Overruns'[b] = Overruns[b]
    BY LedgerSame
  <2>3. Amounts'[a] = amount
    BY DEF Amounts
  <2>. QED
    BY <1>1, <2>1, <2>2, <2>3 DEF Drawn
<1>. HIDE DEF O, D
<1>5. SumFunctionOnSet(Amounts', O \cup {a}) = SumFunctionOnSet(Amounts, O) + amount
  BY <1>1, <1>3, <1>4, SumAdds
<1>6. SumFunctionOnSet(Actuals', D) = SumFunctionOnSet(Actuals, D)
  BY <1>3, <1>4, SumSame
<1>7. SumFunctionOnSet(Overruns', D) \in Nat
  BY <1>3, <1>4, SumIsNat
<1>8. account[c].reserved + account[c].spent + amount <= CapOf(c) /\ CapOf(c) \in Nat
  BY LedgerDomains DEF Affordable
<1>9. /\ account[c].reserved = SumFunctionOnSet(Amounts, O)
      /\ account[c].spent = SumFunctionOnSet(Actuals, D)
  BY <1>0 DEF LedgerInv, LedgerBalances, Balanced, O, D
<1>10. Balanced(c)'
  BY <1>1, <1>5, <1>6, <1>9 DEF Balanced, O, D
<1>11. account'[c].reserved + account'[c].spent <= CapOf(c) + SumFunctionOnSet(Overruns', D)
  BY <1>c, <1>7, <1>8
<1>12. CapHolds(c)'
  BY <1>1, <1>11 DEF CapHolds, CapOf, O, D
<1>. QED
  BY <1>10, <1>12

LEMMA SettleBalances ==
    ASSUME LedgerInv, NEW a \in Attempts, NEW actual \in Nat, NEW c \in AccountsOf(a),
           attempt[a].state = "reserved",
           account'[c].reserved = account[c].reserved - attempt[a].amount,
           account'[c].spent = account[c].spent + actual,
           attempt'[a].amount = attempt[a].amount, attempt'[a].actual = actual,
           attempt'[a].state = "settled",
           \A b \in Attempts : b # a => attempt'[b] = attempt[b]
    PROVE  (Balanced(c) /\ CapHolds(c))'
<1> DEFINE O == Drawn(c, {"reserved", "unknown"})
           D == Drawn(c, {"settled"})
           Over == IF actual > attempt[a].amount THEN actual - attempt[a].amount ELSE 0
<1>0. c \in Accounts
  BY LedgerDomains
<1>c. account[c].reserved \in Int /\ account[c].spent \in Int
  BY <1>0 DEF LedgerInv, LedgerTyped, AccountRows, AttemptRows
<1>1. O' = O \ {a} /\ a \in O /\ D' = D \cup {a} /\ a \notin D
  BY DEF Drawn
<1>2. O \subseteq Begun /\ D \subseteq Begun
  BY DEF Drawn, Begun
<1>3. IsFiniteSet(O) /\ IsFiniteSet(D) /\ IsFiniteSet(O \ {a})
  BY <1>2, FS_Subset DEF LedgerInv, Attempted
<1>d. \A b \in Attempts : attempt[b].amount \in Nat /\ attempt[b].actual \in Nat
  BY DEF LedgerInv, LedgerTyped, AccountRows, AttemptRows
<1>f. \A b \in Attempts : b # a => Amounts'[b] = Amounts[b] /\ Actuals'[b] = Actuals[b]
                                /\ Overruns'[b] = Overruns[b]
  BY LedgerSame
<1>g. \A b \in Attempts : Amounts[b] \in Nat /\ Actuals[b] \in Nat /\ Overruns[b] \in Nat
  BY LedgerValues DEF LedgerInv
<1>h. Amounts[a] = attempt[a].amount /\ Amounts'[a] = attempt[a].amount /\ Actuals'[a] = actual
  BY DEF Amounts, Actuals
<1>k. Overruns'[a] = Over
  BY DEF Overruns
<1>i. Over \in Nat /\ Over >= actual - attempt[a].amount
  BY <1>d
<1>j. O \subseteq Attempts /\ D \subseteq Attempts
  BY DEF Drawn
<1>. HIDE DEF O, D, Over
<1>5. SumFunctionOnSet(Amounts, O) = attempt[a].amount + SumFunctionOnSet(Amounts, O \ {a})
  BY <1>1, <1>3, <1>g, <1>h, <1>j, SumSplit
<1>6. SumFunctionOnSet(Amounts', O \ {a}) = SumFunctionOnSet(Amounts, O \ {a})
  BY <1>3, <1>f, <1>j, SumSame
<1>7. SumFunctionOnSet(Actuals', D \cup {a}) = SumFunctionOnSet(Actuals, D) + actual
  <2>1. (\A b \in D : Actuals[b] \in Int /\ Actuals'[b] = Actuals[b]) /\ Actuals'[a] \in Int
    BY <1>1, <1>f, <1>g, <1>h, <1>j
  <2>2. SumFunctionOnSet(Actuals', D \cup {a}) = SumFunctionOnSet(Actuals, D) + Actuals'[a]
    BY <1>1, <1>3, <2>1, SumAdds
  <2>. QED
    BY <1>h, <2>2
<1>8. SumFunctionOnSet(Overruns', D \cup {a}) = SumFunctionOnSet(Overruns, D) + Over
  <2>1. (\A b \in D : Overruns[b] \in Int /\ Overruns'[b] = Overruns[b]) /\ Overruns'[a] \in Int
    BY <1>1, <1>f, <1>g, <1>k, <1>i, <1>j
  <2>2. SumFunctionOnSet(Overruns', D \cup {a}) = SumFunctionOnSet(Overruns, D) + Overruns'[a]
    BY <1>1, <1>3, <2>1, SumAdds
  <2>. QED
    BY <1>k, <2>2
<1>9. /\ SumFunctionOnSet(Overruns, D) \in Nat
      /\ SumFunctionOnSet(Amounts, O \ {a}) \in Int
  BY <1>3, <1>g, <1>j, SumIsNat, SumType
<1>10. /\ account[c].reserved = SumFunctionOnSet(Amounts, O)
       /\ account[c].spent = SumFunctionOnSet(Actuals, D)
       /\ account[c].reserved + account[c].spent <= CapOf(c) + SumFunctionOnSet(Overruns, D)
  BY <1>0 DEF LedgerInv, LedgerBalances, Balanced, CapHolds, O, D
<1>11. /\ account'[c].reserved = SumFunctionOnSet(Amounts', O \ {a})
       /\ account'[c].spent = SumFunctionOnSet(Actuals', D \cup {a})
  BY <1>5, <1>6, <1>7, <1>9, <1>10, <1>d
<1>12. account'[c].reserved + account'[c].spent
          <= CapOf(c) + SumFunctionOnSet(Overruns', D \cup {a})
  BY <1>8, <1>9, <1>10, <1>c, <1>d, <1>i, LedgerDomains
<1>13. Balanced(c)'
  BY <1>1, <1>11 DEF Balanced, O, D
<1>14. CapHolds(c)'
  BY <1>1, <1>12 DEF CapHolds, CapOf, O, D
<1>. QED
  BY <1>13, <1>14

LEMMA SettledAttempt ==
    ASSUME LedgerTyped, NEW a \in Attempts, NEW actual \in Nat,
           attempt' = [attempt EXCEPT ![a].pc = "done", ![a].state = "settled", ![a].actual = actual]
    PROVE  attempt' \in [Attempts -> AttemptRows]
<1>1. [attempt[a] EXCEPT !.pc = "done", !.state = "settled", !.actual = actual] \in AttemptRows
  BY DEF LedgerTyped, AttemptRows, AttemptRows
<1>. QED
  BY <1>1 DEF LedgerTyped, AttemptRows

LEMMA LedgerStepTyped == ASSUME LedgerTyped, [LedgerNext]_fbVars PROVE LedgerTyped'
<1>. USE LedgerDomains
<1>1. CASE UNCHANGED fbVars
  BY <1>1 DEF fbVars, LedgerTyped, AttemptRows
<1>2. ASSUME NEW a \in Attempts, SeedAccounts(a) PROVE LedgerTyped'
  <2>1. SeedLimit(a) \in CallCount
    BY LedgerAssumption DEF SeedLimit, CallCount
  <2>2. [Unseeded EXCEPT !.seeded = TRUE, !.limit = SeedLimit(a)]
            \in AccountRows
    <3>1. Unseeded \in AccountRows
      BY DEF Unseeded, AccountRows, CallCount
    <3>. QED
      BY <2>1, <3>1 DEF AccountRows
  <2>. QED
    BY <1>2, <2>2 DEF SeedAccounts, LedgerTyped, AttemptRows
<1>3. ASSUME NEW a \in Attempts, Reserve(a) PROVE LedgerTyped'
  <2>1. PICK amount \in Costs(a) :
          IF Affordable(a, amount) /\ CallLeft(a)
            THEN /\ account' = Booked(a, amount)
                 /\ attempt' = [attempt EXCEPT ![a].pc = "call", ![a].state = "reserved",
                                               ![a].amount = amount]
            ELSE /\ attempt' = [attempt EXCEPT ![a].pc = "refused"]
                 /\ UNCHANGED account
    BY <1>3 DEF Reserve
  <2>2. amount \in Nat
    OBVIOUS
  <2>4. CASE UNCHANGED account
    BY <2>1, <2>2, <2>4 DEF LedgerTyped, AttemptRows
  <2>5. CASE account' = Booked(a, amount)
    <3>1. account' \in [Accounts -> AccountRows]
      BY <2>2, <2>5, BookedRows
    <3>. QED
      BY <2>1, <2>2, <3>1 DEF LedgerTyped, AttemptRows
  <2>. QED
    BY <2>1, <2>4, <2>5
<1>4. ASSUME NEW a \in Attempts, SettleKnown(a) PROVE LedgerTyped'
  <2>1. PICK actual \in Costs(a) :
            /\ attempt' = [attempt EXCEPT ![a].pc = "done", ![a].state = "settled", ![a].actual = actual]
            /\ account' \in [Accounts -> AccountRows]
    BY <1>4, SettledRows
  <2>2. actual \in Nat
    OBVIOUS
  <2>3. attempt' \in [Attempts -> AttemptRows]
    BY <2>1, <2>2, SettledAttempt
  <2>. QED
    BY <2>1, <2>3 DEF LedgerTyped, AttemptRows
<1>5. ASSUME NEW a \in Attempts, SettleUnknown(a) \/ CallIsLost(a) PROVE LedgerTyped'
  BY <1>5 DEF SettleUnknown, CallIsLost, LedgerTyped, AttemptRows
<1>. QED
  BY <1>1, <1>2, <1>3, <1>4, <1>5 DEF LedgerNext

LEMMA LedgerStepAttempted == ASSUME LedgerInv, [LedgerNext]_fbVars PROVE Attempted'
<1>. USE LedgerDomains
<1>. USE DEF LedgerInv
<1>1. CASE UNCHANGED fbVars
  BY <1>1 DEF fbVars, Attempted, Begun
<1>2. ASSUME NEW a \in Attempts, SeedAccounts(a) PROVE Attempted'
  <2>1. Begun' = Begun
    BY <1>2 DEF SeedAccounts, Begun, LedgerTyped, AttemptRows
  <2>2. \A c \in Accounts : (account[c].seeded => account'[c] = account[c])
                         /\ (c \in AccountsOf(a) => account'[c].seeded)
                         /\ (c \notin AccountsOf(a) => account'[c] = account[c])
                         /\ (account'[c] = account[c] \/ account'[c].seeded)
    BY <1>2 DEF SeedAccounts, LedgerTyped, AttemptRows, Unseeded, AccountRows
  <2>3. attempt'[a].pc = "reserve" /\ attempt'[a].state = attempt[a].state /\ attempt[a].pc = "idle"
        /\ \A b \in Attempts : b # a => attempt'[b] = attempt[b]
    BY <1>2 DEF SeedAccounts, LedgerTyped, AttemptRows
  <2>. QED
    BY <2>1, <2>2, <2>3 DEF Attempted
<1>3. ASSUME NEW a \in Attempts, Reserve(a) PROVE Attempted'
  <2>1. PICK amount \in Costs(a) :
          IF Affordable(a, amount) /\ CallLeft(a)
            THEN /\ account' = Booked(a, amount)
                 /\ attempt' = [attempt EXCEPT ![a].pc = "call", ![a].state = "reserved",
                                               ![a].amount = amount]
            ELSE /\ attempt' = [attempt EXCEPT ![a].pc = "refused"]
                 /\ UNCHANGED account
    BY <1>3 DEF Reserve
  <2>2. /\ attempt'[a].pc \in {"call", "refused"} /\ attempt[a].pc = "reserve"
        /\ attempt'[a].pc = "refused" => attempt'[a].state = attempt[a].state
        /\ \A b \in Attempts : b # a => attempt'[b] = attempt[b]
    BY <1>3, <2>1 DEF Reserve, LedgerTyped, AttemptRows
  <2>3. \A c \in Accounts : account'[c].seeded = account[c].seeded
                         /\ (c \notin AccountsOf(a) => account'[c] = account[c])
    BY <2>1, BookedRows
  <2>4. \A c \in AccountsOf(a) : account[c].seeded
    BY <2>2 DEF Attempted
  <2>5. Begun' \subseteq Begun \cup {a}
    BY <2>2 DEF Begun
  <2>6. IsFiniteSet(Begun')
    BY <2>5, FS_AddElement, FS_Subset DEF Attempted
  <2>. QED
    BY <2>2, <2>3, <2>4, <2>6 DEF Attempted
<1>4. ASSUME NEW a \in Attempts, SettleKnown(a) PROVE Attempted'
  <2>1. /\ \A c \in Accounts : account'[c].seeded = account[c].seeded
        /\ \A c \in Accounts \ AccountsOf(a) : account'[c] = account[c]
        /\ \E actual : attempt' = [attempt EXCEPT ![a].pc = "done", ![a].state = "settled", ![a].actual = actual]
    BY <1>4, SettledRows
  <2>2. attempt[a].pc = "call" /\ attempt[a].state = "reserved"
    BY <1>4 DEF SettleKnown
  <2>3. /\ attempt'[a].pc = "done" /\ attempt'[a].state = "settled"
        /\ \A b \in Attempts : b # a => attempt'[b] = attempt[b]
    BY <2>1 DEF LedgerTyped, AttemptRows
  <2>4. \A c \in AccountsOf(a) : account[c].seeded
    BY <2>2 DEF Attempted
  <2>5. Begun' = Begun
    BY <2>2, <2>3 DEF Begun
  <2>6. IsFiniteSet(Begun')
    BY <2>5 DEF Attempted
  <2>7. \A b \in Attempts :
          /\ attempt'[b].pc \in {"idle", "reserve", "refused"} => attempt'[b].state = "none"
          /\ attempt'[b].pc # "idle" => attempt[b].pc # "idle"
    BY <2>2, <2>3 DEF Attempted
  <2>8. \A c \in Accounts : ~account'[c].seeded => account'[c].reserved = 0 /\ account'[c].spent = 0
    BY <2>1, <2>4 DEF Attempted
  <2>9. \A b \in Attempts : attempt'[b].pc # "idle" => \A c \in AccountsOf(b) : account'[c].seeded
    BY <2>1, <2>7 DEF Attempted
  <2>. QED
    BY <2>6, <2>7, <2>8, <2>9 DEF Attempted
<1>5. ASSUME NEW a \in Attempts, SettleUnknown(a) \/ CallIsLost(a) PROVE Attempted'
  <2>2. /\ attempt'[a].pc \in {"done", "lost"} /\ attempt[a].pc = "call"
        /\ \A b \in Attempts : b # a => attempt'[b] = attempt[b]
        /\ attempt'[a].state = "none" <=> attempt[a].state = "none"
        /\ account' = account
    BY <1>5 DEF SettleUnknown, CallIsLost, LedgerTyped, AttemptRows
  <2>5. Begun' = Begun
    BY <2>2 DEF Begun
  <2>. QED
    BY <2>2, <2>5 DEF Attempted
<1>. QED
  BY <1>1, <1>2, <1>3, <1>4, <1>5 DEF LedgerNext

LEMMA LedgerStepBalances == ASSUME LedgerInv, [LedgerNext]_fbVars PROVE LedgerBalances'
<1>. USE LedgerDomains
<1> SUFFICES ASSUME NEW c \in Accounts PROVE (Balanced(c) /\ CapHolds(c))'
  BY DEF LedgerBalances
<1>0. LedgerTyped /\ Attempted
  BY DEF LedgerInv
<1>1. CASE UNCHANGED fbVars
  BY <1>1, SameBalance DEF fbVars
<1>2. ASSUME NEW a \in Attempts, SeedAccounts(a) PROVE (Balanced(c) /\ CapHolds(c))'
  <2>1. \A b \in Attempts : attempt'[b].amount = attempt[b].amount
                         /\ attempt'[b].actual = attempt[b].actual
                         /\ attempt'[b].state = attempt[b].state
    BY <1>0, <1>2 DEF SeedAccounts, LedgerTyped, AttemptRows
  <2>2. account'[c].reserved = account[c].reserved /\ account'[c].spent = account[c].spent
    BY <1>0, <1>2 DEF SeedAccounts, Attempted, Unseeded
  <2>. QED
    BY <2>1, <2>2, SameBalance
<1>3. ASSUME NEW a \in Attempts, Reserve(a) PROVE (Balanced(c) /\ CapHolds(c))'
  <2>1. PICK amount \in Costs(a) :
          IF Affordable(a, amount) /\ CallLeft(a)
            THEN /\ account' = Booked(a, amount)
                 /\ attempt' = [attempt EXCEPT ![a].pc = "call", ![a].state = "reserved",
                                               ![a].amount = amount]
            ELSE /\ attempt' = [attempt EXCEPT ![a].pc = "refused"]
                 /\ UNCHANGED account
    BY <1>3 DEF Reserve
  <2>2. attempt[a].pc = "reserve" /\ attempt[a].state = "none" /\ amount \in Nat
    BY <1>0, <1>3 DEF Reserve, Attempted
  <2>3. CASE Affordable(a, amount) /\ CallLeft(a)
    <3>1. CASE c \in AccountsOf(a)
      <4>1. /\ account'[c].reserved = account[c].reserved + amount
            /\ account'[c].spent = account[c].spent
        BY <1>0, <2>1, <2>2, <2>3, <3>1, BookedRows
      <4>2. /\ attempt'[a].amount = amount /\ attempt'[a].state = "reserved"
            /\ \A b \in Attempts : b # a => attempt'[b] = attempt[b]
        BY <1>0, <2>1, <2>3 DEF LedgerTyped, AttemptRows
      <4>. QED
        BY <2>2, <2>3, <3>1, <4>1, <4>2, ReserveBalances
    <3>2. CASE c \notin AccountsOf(a)
      <4>1. account'[c] = account[c]
        BY <2>1, <2>3, <3>2 DEF Booked
      <4>2. \A b \in Attempts : b # a => attempt'[b] = attempt[b]
        BY <1>0, <2>1, <2>3 DEF LedgerTyped, AttemptRows
      <4>. QED
        BY <3>2, <4>1, <4>2, SameBalance
    <3>. QED
      BY <3>1, <3>2
  <2>4. CASE ~(Affordable(a, amount) /\ CallLeft(a))
    <3>1. \A b \in Attempts : attempt'[b].amount = attempt[b].amount
                         /\ attempt'[b].actual = attempt[b].actual
                         /\ attempt'[b].state = attempt[b].state
      BY <1>0, <2>1, <2>4 DEF LedgerTyped, AttemptRows
    <3>. QED
      BY <2>1, <2>4, <3>1, SameBalance
  <2>. QED
    BY <2>3, <2>4
<1>4. ASSUME NEW a \in Attempts, SettleKnown(a) PROVE (Balanced(c) /\ CapHolds(c))'
  <2>1. PICK actual \in Costs(a) :
            /\ attempt' = [attempt EXCEPT ![a].pc = "done", ![a].state = "settled", ![a].actual = actual]
            /\ \A d \in Accounts \ AccountsOf(a) : account'[d] = account[d]
            /\ \A d \in AccountsOf(a) : /\ account'[d].reserved = account[d].reserved - attempt[a].amount
                                       /\ account'[d].spent = account[d].spent + actual
    BY <1>0, <1>4, SettledRows
  <2>2. attempt[a].state = "reserved" /\ actual \in Nat
    BY <1>4 DEF SettleKnown
  <2>3. CASE c \in AccountsOf(a)
    <3>1. /\ account'[c].reserved = account[c].reserved - attempt[a].amount
          /\ account'[c].spent = account[c].spent + actual
      BY <2>1, <2>3
    <3>2. /\ attempt'[a].amount = attempt[a].amount /\ attempt'[a].actual = actual
          /\ attempt'[a].state = "settled"
          /\ \A b \in Attempts : b # a => attempt'[b] = attempt[b]
      BY <1>0, <2>1 DEF LedgerTyped, AttemptRows
    <3>. QED
      BY <2>2, <2>3, <3>1, <3>2, SettleBalances
  <2>4. CASE c \notin AccountsOf(a)
    <3>1. account'[c] = account[c]
      BY <2>1, <2>4
    <3>2. \A b \in Attempts : b # a => attempt'[b] = attempt[b]
      BY <1>0, <2>1 DEF LedgerTyped, AttemptRows
    <3>. QED
      BY <2>4, <3>1, <3>2, SameBalance
  <2>. QED
    BY <2>3, <2>4
<1>5. ASSUME NEW a \in Attempts, SettleUnknown(a) \/ CallIsLost(a) PROVE (Balanced(c) /\ CapHolds(c))'
  <2>1. \A b \in Attempts : attempt'[b].amount = attempt[b].amount
                         /\ attempt'[b].actual = attempt[b].actual
                         /\ \/ attempt'[b].state = attempt[b].state
                            \/ attempt[b].state = "reserved" /\ attempt'[b].state = "unknown"
    BY <1>0, <1>5 DEF SettleUnknown, CallIsLost, LedgerTyped, AttemptRows
  <2>2. account' = account
    BY <1>5 DEF SettleUnknown, CallIsLost
  <2>. QED
    BY <2>1, <2>2, SameBalance
<1>. QED
  BY <1>1, <1>2, <1>3, <1>4, <1>5 DEF LedgerNext

LEMMA LedgerInvariance == LedgerSpec => []LedgerInv
<1>1. LedgerInit => LedgerInv
  BY LedgerInitInv
<1>2. LedgerInv /\ [LedgerNext]_fbVars => LedgerInv'
  BY LedgerStepTyped, LedgerStepAttempted, LedgerStepBalances DEF LedgerInv
<1>. QED
  BY <1>1, <1>2, PTL DEF LedgerSpec

\* However calls of several users cross, fail or are lost, both accounts of a
\* call hold what its reservation says, and a day's cap is exceeded only by
\* what settled calls cost above their reservations (budget.go).
THEOREM AccountsBalance == LedgerSpec => []LedgerBalances
  BY LedgerInvariance, PTL DEF LedgerInv

----------------------------------------------------------------------------
(***************************************************************************)
(* FuturesHypotheses: what its owner closed stays closed.                  *)
(***************************************************************************)

\* A round that is about to expire the hypothesis as it is now read it when it
\* was tracked.
HypothesisInv ==
    /\ hyp = [life |-> hyp.life, version |-> hyp.version, due |-> hyp.due, needs |-> hyp.needs,
              reviewed |-> hyp.reviewed, deleted |-> hyp.deleted]
    /\ hyp.life \in Lives /\ hyp.version \in Int
    /\ upkeep \in [Servers -> [pc : {"idle", "expire", "check"}, version : Int]]
    /\ \A s \in Servers : upkeep[s].pc = "expire" =>
          /\ upkeep[s].version <= hyp.version
          /\ upkeep[s].version = hyp.version => hyp.life # "closed"

\* A change by the owner is a new version.
LEMMA OwnerChanges ==
    ASSUME HypothesisInv, UNCHANGED upkeep, hyp'.version = hyp.version + 1, hyp'.life \in Lives,
           hyp' = [life |-> hyp'.life, version |-> hyp'.version, due |-> hyp'.due, needs |-> hyp'.needs,
                   reviewed |-> hyp'.reviewed, deleted |-> hyp'.deleted],
           hyp.life = "closed" => hyp'.life = "closed"
    PROVE  HypothesisInv' /\ (hyp.life = "closed" => hyp'.life = "closed")
<1>1. \A s \in Servers : upkeep[s].version \in Int
  BY DEF HypothesisInv
<1>. QED
  BY <1>1 DEF HypothesisInv

\* Nothing else changes its version, and only an expiry its life.
LEMMA LifeKept ==
    ASSUME HypothesisInv, UNCHANGED upkeep, hyp'.version = hyp.version, hyp'.life = hyp.life,
           hyp' = [life |-> hyp'.life, version |-> hyp'.version, due |-> hyp'.due, needs |-> hyp'.needs,
                   reviewed |-> hyp'.reviewed, deleted |-> hyp'.deleted]
    PROVE  HypothesisInv' /\ (hyp.life = "closed" => hyp'.life = "closed")
  BY DEF HypothesisInv

LEMMA HypothesisStep ==
    ASSUME HypothesisInv, [HypothesisNext]_fhVars
    PROVE  HypothesisInv' /\ (hyp.life = "closed" => hyp'.life = "closed")
<1>0. hyp = [life |-> hyp.life, version |-> hyp.version, due |-> hyp.due, needs |-> hyp.needs,
              reviewed |-> hyp.reviewed, deleted |-> hyp.deleted]
      /\ hyp.life \in Lives
  BY DEF HypothesisInv
<1>1. CASE UNCHANGED fhVars
  BY <1>0, <1>1, LifeKept DEF fhVars
<1>2. CASE Look
  BY <1>0, <1>2, LifeKept DEF Look
<1>3. CASE Edit
  <2>1. hyp' = [[hyp EXCEPT !.due = FALSE] EXCEPT !.version = hyp.version + 1]
    BY <1>3 DEF Edit, Patched
  <2>. QED
    BY <1>0, <1>3, <2>1, OwnerChanges DEF Edit
<1>4. CASE Decide
  <2>1. hyp' = [[hyp EXCEPT !.reviewed = LatestOf(checks)] EXCEPT !.version = hyp.version + 1]
    BY <1>4 DEF Decide, Patched
  <2>. QED
    BY <1>0, <1>4, <2>1, OwnerChanges DEF Decide
<1>5. CASE Acknowledge
  <2>1. hyp' = [[hyp EXCEPT !.reviewed = LatestOf(checks), !.needs = FALSE] EXCEPT !.version = hyp.version + 1]
    BY <1>5 DEF Acknowledge, Patched
  <2>. QED
    BY <1>0, <1>5, <2>1, OwnerChanges DEF Acknowledge
<1>6. CASE DeleteHypothesis \/ EndPasses
  BY <1>0, <1>6, LifeKept DEF DeleteHypothesis, EndPasses
<1>7. ASSUME NEW action \in DOMAIN Transitions, Transition(action)
      PROVE  HypothesisInv' /\ (hyp.life = "closed" => hyp'.life = "closed")
  <2>1. /\ hyp' = [[hyp EXCEPT !.life = Reached[action]] EXCEPT !.version = hyp.version + 1]
        /\ UNCHANGED upkeep
    BY <1>7 DEF Transition, Patched
  <2>2. hyp.life # "closed" /\ Reached[action] \in Lives
    BY <1>7 DEF Transition, Transitions, Reached, Lives
  <2>. QED
    BY <1>0, <2>1, <2>2, OwnerChanges
<1>8. ASSUME NEW c \in Conditions, CreateCheck(c) \/ Observe(c)
      PROVE  HypothesisInv' /\ (hyp.life = "closed" => hyp'.life = "closed")
  BY <1>0, <1>8, LifeKept DEF CreateCheck, Observe
<1>9. ASSUME NEW s \in Servers, ReadDue(s) \/ ReadTracked(s) \/ EndRound(s)
      PROVE  HypothesisInv' /\ (hyp.life = "closed" => hyp'.life = "closed")
  <2>1. hyp' = hyp /\ \A z \in Servers : z # s => upkeep'[z] = upkeep[z]
    BY <1>9 DEF ReadDue, ReadTracked, EndRound, HypothesisInv
  <2>2. upkeep'[s].pc = "expire" => upkeep'[s].version = hyp.version /\ hyp.life # "closed"
    BY <1>9 DEF ReadDue, ReadTracked, EndRound, HypothesisInv, Tracked
  <2>3. upkeep' \in [Servers -> [pc : {"idle", "expire", "check"}, version : Int]]
    BY <1>9 DEF ReadDue, ReadTracked, EndRound, HypothesisInv
  <2>. QED
    BY <2>1, <2>2, <2>3 DEF HypothesisInv
<1>10. ASSUME NEW s \in Servers, ExpireDueHypotheses(s)
       PROVE  HypothesisInv' /\ (hyp.life = "closed" => hyp'.life = "closed")
  <2>1. /\ hyp'.version = hyp.version /\ hyp'.life \in Lives
        /\ hyp' = [life |-> hyp'.life, version |-> hyp'.version, due |-> hyp'.due, needs |-> hyp'.needs,
                   reviewed |-> hyp'.reviewed, deleted |-> hyp'.deleted]
    BY <1>0, <1>10 DEF ExpireDueHypotheses, Lives
  <2>2. hyp'.life = hyp.life \/ (hyp.life # "closed" /\ hyp'.life = "expired")
    BY <1>0, <1>10 DEF ExpireDueHypotheses, HypothesisInv, AsRead
  <2>3. /\ upkeep' \in [Servers -> [pc : {"idle", "expire", "check"}, version : Int]]
        /\ upkeep'[s].pc = "idle"
        /\ \A z \in Servers : z # s => upkeep'[z] = upkeep[z]
    BY <1>10 DEF ExpireDueHypotheses, HypothesisInv
  <2>. QED
    BY <2>1, <2>2, <2>3 DEF HypothesisInv
<1>11. ASSUME NEW s \in Servers, NEW c \in Conditions, EvaluateDueCondition(s, c)
       PROVE  HypothesisInv' /\ (hyp.life = "closed" => hyp'.life = "closed")
  BY <1>0, <1>11, LifeKept DEF EvaluateDueCondition
<1>. QED
  BY <1>1, <1>2, <1>3, <1>4, <1>5, <1>6, <1>7, <1>8, <1>9, <1>10, <1>11 DEF HypothesisNext

LEMMA HypothesisInvariance == HypothesisSpec => []HypothesisInv
<1>1. HypothesisInit => HypothesisInv
  BY DEF HypothesisInit, HypothesisInv, Lives
<1>2. HypothesisInv /\ [HypothesisNext]_fhVars => HypothesisInv'
  BY HypothesisStep
<1>. QED
  BY <1>1, <1>2, PTL DEF HypothesisSpec

\* A maintenance round that read the hypothesis before its owner closed it never
\* reopens it: its write names the version it read (maintenance.go), and a close
\* is a new version (domain_hypotheses.go).
THEOREM ClosedIsFinal == HypothesisSpec => ClosedStaysClosed
<1>1. HypothesisInv /\ [HypothesisNext]_fhVars => [hyp.life = "closed" => hyp'.life = "closed"]_fhVars
  BY HypothesisStep
<1>. QED
  BY <1>1, HypothesisInvariance, PTL DEF HypothesisSpec, ClosedStaysClosed

----------------------------------------------------------------------------
(***************************************************************************)
(* FuturesRelease: who may write owes it to a probe.                       *)
(***************************************************************************)

GateRows == [status : {"none", "active", "failed", "expired", "invalidated", "consumed"},
             of : Int, version : Int]
OpsRows  == [version : Int, mode : Modes, users : SUBSET Customers]

ConsumedBy(v) == \E g \in Gates : gate[g].status = "consumed" /\ gate[g].version = v

ReleaseInv ==
    /\ source.version \in Int
    /\ gate \in [Gates -> GateRows] /\ ops \in Seq(OpsRows)
    /\ \A g \in Gates : gate[g].status = "active" => gate[g].of = source.version /\ source.version # 0
    /\ \A i \in 1..Len(ops) : ops[i].mode = "live" => ConsumedBy(ops[i].version)

\* A consumed gate stays as it is, so what is released stays vouched for.
LEMMA StillConsumed ==
    ASSUME \A g \in Gates : gate[g].status = "consumed" => gate'[g] = gate[g], NEW v, ConsumedBy(v)
    PROVE  ConsumedBy(v)'
  BY DEF ConsumedBy

LEMMA OperationsKeep ==
    ASSUME ReleaseInv, NEW v \in Int, NEW mode \in Modes, NEW users \in SUBSET Customers,
           PatchOperations(v, mode, users)
    PROVE  ReleaseInv'
<1>. USE DEF ReleaseInv
<1>1. ops' = Append(ops, [version |-> v + 1, mode |-> mode, users |-> users]) /\ source' = source
  BY DEF PatchOperations
<1>2. [version |-> v + 1, mode |-> mode, users |-> users] \in OpsRows
  BY DEF OpsRows
<1>3. /\ ops' \in Seq(OpsRows) /\ Len(ops') = Len(ops) + 1
      /\ \A i \in 1..Len(ops) : ops'[i] = ops[i]
      /\ ops'[Len(ops) + 1].mode = mode /\ ops'[Len(ops) + 1].version = v + 1
  BY <1>1, <1>2
<1>4. /\ gate' \in [Gates -> GateRows]
      /\ \A g \in Gates : gate[g].status = "consumed" => gate'[g] = gate[g]
      /\ \A g \in Gates : gate'[g].status = "active" => gate'[g] = gate[g]
      /\ mode = "live" => ConsumedBy(v + 1)'
  <2>1. CASE mode # "live"
    BY <2>1 DEF PatchOperations
  <2>2. CASE mode = "live"
    <3>1. PICK g \in Gates : gate[g].status = "active"
                  /\ gate' = [gate EXCEPT ![g].status = "consumed", ![g].version = v + 1]
      BY <2>2 DEF PatchOperations, Consumable
    <3>2. /\ gate'[g] \in GateRows /\ gate'[g].status = "consumed" /\ gate'[g].version = v + 1
          /\ \A h \in Gates : h # g => gate'[h] = gate[h]
      <4>1. v + 1 \in Int
        OBVIOUS
      <4>2. [gate[g] EXCEPT !.status = "consumed", !.version = v + 1] \in GateRows
        BY <4>1 DEF GateRows
      <4>. QED
        BY <3>1, <4>2 DEF GateRows
    <3>3. gate' \in [Gates -> GateRows]
      BY <3>1, <3>2
    <3>. QED
      BY <3>1, <3>2, <3>3 DEF ConsumedBy
  <2>. QED
    BY <2>1, <2>2
<1>5. ASSUME NEW i \in 1..Len(ops'), ops'[i].mode = "live" PROVE ConsumedBy(ops[i].version)'
  <2>1. CASE i \in 1..Len(ops)
    <3>1. ConsumedBy(ops[i].version) /\ ops'[i] = ops[i]
      BY <1>3, <1>5, <2>1
    <3>2. ConsumedBy(ops[i].version) => \E g \in Gates : gate'[g].status = "consumed" /\ gate'[g].version = ops'[i].version
      BY <1>4, <3>1 DEF ConsumedBy
    <3>. QED
      BY <3>1, <3>2 DEF ConsumedBy
  <2>2. CASE i = Len(ops) + 1
    BY <1>3, <1>4, <1>5, <2>2 DEF ConsumedBy
  <2>. QED
    BY <1>3, <2>1, <2>2
<1>. QED
  BY <1>1, <1>3, <1>4, <1>5

LEMMA GatesKeep ==
    ASSUME ReleaseInv, UNCHANGED ops, gate' \in [Gates -> GateRows], source'.version \in Int,
           \A g \in Gates : gate[g].status = "consumed" => gate'[g] = gate[g],
           \A g \in Gates : gate'[g].status = "active" => gate'[g].of = source'.version /\ source'.version # 0
    PROVE  ReleaseInv'
  BY DEF ReleaseInv, ConsumedBy

LEMMA ReleaseStep == ASSUME ReleaseInv, [ReleaseNext]_frlVars PROVE ReleaseInv'
<1>. USE DEF ReleaseInv
<1>1. CASE UNCHANGED frlVars
  BY <1>1, GatesKeep DEF frlVars
<1>2. CASE CreateSource
  <2>1. \A g \in Gates : gate[g].status # "active"
    BY <1>2 DEF CreateSource
  <2>. QED
    BY <1>2, <2>1, GatesKeep DEF CreateSource
<1>3. ASSUME NEW v \in Int, NEW status, ChangeSource(v, status) PROVE ReleaseInv'
  <2>1. \A g \in Gates : gate'[g].status # "active" /\ gate'[g] \in GateRows
                      /\ (gate[g].status = "consumed" => gate'[g] = gate[g])
    BY <1>3 DEF ChangeSource, invalidateSourceGates, Invalidated, GateRows
  <2>. QED
    BY <1>3, <2>1, GatesKeep DEF ChangeSource, invalidateSourceGates
<1>4. ASSUME NEW g \in Gates, NEW pass, NEW v \in Int, CreateSourceProbe(g, v, pass) PROVE ReleaseInv'
  <2>1. [status |-> IF pass THEN "active" ELSE "failed", of |-> v, version |-> 0] \in GateRows
    BY DEF GateRows
  <2>2. gate' \in [Gates -> GateRows] /\ gate'[g].of = v /\ \A h \in Gates : h # g => gate'[h] = gate[h]
    BY <1>4, <2>1 DEF CreateSourceProbe
  <2>. QED
    BY <1>4, <2>2, GatesKeep DEF CreateSourceProbe
<1>5. ASSUME NEW g \in Gates, GateExpires(g) PROVE ReleaseInv'
  <2>1. gate' \in [Gates -> GateRows] /\ gate'[g].status = "expired" /\ \A h \in Gates : h # g => gate'[h] = gate[h]
    BY <1>5 DEF GateExpires, GateRows
  <2>. QED
    BY <1>5, <2>1, GatesKeep DEF GateExpires
<1>6. ASSUME NEW p, NEW v, NEW status, PutAdmission(p, v, status) PROVE ReleaseInv'
  BY <1>6, GatesKeep DEF PutAdmission
<1>7. \A m \in {MaxSourceVersion, MaxOpsVersion} : 1..m \subseteq Int
  BY ReleaseAssumption
<1>. QED
  BY <1>1, <1>2, <1>3, <1>4, <1>5, <1>6, <1>7, OperationsKeep
     DEF ReleaseNext, PatchSource, CreateSourceVersion

LEMMA ReleaseInvariance == ReleaseSpec => []ReleaseInv
<1>1. ReleaseInit => ReleaseInv
  BY DEF ReleaseInit, ReleaseInv, NoGate, GateRows, OpsRows
<1>2. ReleaseInv /\ [ReleaseNext]_frlVars => ReleaseInv'
  BY ReleaseStep
<1>. QED
  BY <1>1, <1>2, PTL DEF ReleaseSpec

LEMMA ReleaseInvImplies == ReleaseInv => LiveAsProbed
<1> SUFFICES ASSUME ReleaseInv PROVE LiveAsProbed
  OBVIOUS
<1>1. ASSUME NEW u \in Customers, AuthorizeAccess(u, "write")
      PROVE  ConsumedBy(Policy.version)
  <2>1. Policy.mode = "live"
    BY <1>1 DEF AuthorizeAccess, Permits
  <2>2. ops # <<>>
    BY <2>1 DEF Policy
  <2>3. Len(ops) \in 1..Len(ops)
    BY <2>2 DEF ReleaseInv
  <2>. QED
    BY <2>1, <2>2, <2>3 DEF Policy, ReleaseInv
<1>. QED
  BY <1>1 DEF LiveAsProbed, ReleaseInv, ConsumedBy

\* A user who may write owes it to a probe of the source: the operations version
\* in force consumed a release gate of its own, and no gate that is still open is
\* for an earlier version of the source (release_gate.go, domain_admin.go).
THEOREM LiveOwesItToAProbe == ReleaseSpec => []LiveAsProbed
  BY ReleaseInvariance, ReleaseInvImplies, PTL

----------------------------------------------------------------------------
(***************************************************************************)
(* FuturesDrafts: keys and deletions.                                      *)
(***************************************************************************)

ObjectRows ==
    [kind : Kinds \cup {"none"}, under : FdKeys \cup {"none"}, hidden : BOOLEAN,
     ref : Ids \cup {0}, rev : Int, parsed : Int]
CallRows ==
    [pc : {"idle", "reading", "write", "store", "done", "refused", "delete", "remove", "deleted"},
     op : Operations \cup {"none"}, key : FdKeys \cup {"none"}, of : Ids \cup {0}, rev : Int,
     late : SUBSET Ids, answer : Ids \cup {0}]

DraftTyped ==
    /\ fobj \in [Ids -> ObjectRows]
    /\ fkey \in [Operations -> [FdKeys -> Ids \cup {0}]]
    /\ tomb \subseteq Ids
    /\ purge \in [Ids -> {"none", "scheduled", "purged"}]
    /\ fcall \in [FdCalls -> CallRows]

\* An id that was taken once is never taken again.
Taken(i) == fobj[i].kind # "none" \/ purge[i] # "none"

TombsAreHidden == \A i \in tomb : purge[i] # "none" /\ ~Visible(i)

\* The object made under a key is the one the key answers with.
ObjectsHaveKeys ==
    \A i \in Ids : fobj[i].kind # "none" =>
        fobj[i].under \in FdKeys /\ fkey[Op[fobj[i].kind]][fobj[i].under] = i
KeysHaveObjects ==
    \A o \in Operations, k \in FdKeys : fkey[o][k] # 0 =>
        /\ fobj[fkey[o][k]].kind # "none"
        /\ o # "draft.parse" => Op[fobj[fkey[o][k]].kind] = o /\ fobj[fkey[o][k]].under = k

CallSound(c) ==
    /\ fcall[c].late \subseteq tomb
    /\ fcall[c].pc \in {"reading", "write", "store"} => fcall[c].op \in Operations /\ fcall[c].key \in FdKeys
    /\ fcall[c].pc = "store" => fcall[c].op = "document.create"
    /\ fcall[c].pc = "write" /\ fcall[c].op = "draft.parse" => fcall[c].of \in Ids \ fcall[c].late
    /\ fcall[c].pc \in {"store", "done"} =>
          fcall[c].answer \in Ids \ fcall[c].late /\ Taken(fcall[c].answer)
    /\ fcall[c].pc = "done" /\ fcall[c].op \in {"draft.create", "run.create"} /\ Visible(fcall[c].answer)
          => fobj[fcall[c].answer].under = fcall[c].key

DraftInv == DraftTyped /\ TombsAreHidden /\ ObjectsHaveKeys /\ KeysHaveObjects /\ \A c \in FdCalls : CallSound(c)

LEMMA OperationsOfKinds ==
    /\ \A k \in Kinds : Op[k] \in Operations \ {"draft.parse"}
    /\ \A k, l \in Kinds : Op[k] = Op[l] => k = l
    /\ \A o \in Operations \ {"draft.parse"} : \E k \in Kinds : Op[k] = o
    /\ 0 \notin Ids /\ "none" \notin Kinds
  BY DraftAssumption DEF Operations, Kinds, Op, Ids

\* A call that does nothing is not disturbed by what the others do.
LEMMA CallUndisturbed ==
    ASSUME NEW c \in FdCalls, CallSound(c), fcall'[c] = fcall[c], tomb \subseteq tomb',
           \A i \in Ids : Taken(i) => Taken(i)',
           \A i \in Ids : Taken(i) /\ Visible(i)' => Visible(i) /\ fobj'[i].under = fobj[i].under
    PROVE  CallSound(c)'
  BY DEF CallSound

\* A step of one call that leaves the objects alone.
LEMMA OnlyCallMoves ==
    ASSUME DraftInv, UNCHANGED <<fobj, fkey, tomb, purge>>, NEW c \in FdCalls, NEW row \in CallRows,
           fcall' = [fcall EXCEPT ![c] = row],
           row.late \subseteq tomb,
           row.pc \in {"reading", "write", "store"} => row.op \in Operations /\ row.key \in FdKeys,
           row.pc = "store" => row.op = "document.create",
           row.pc = "write" /\ row.op = "draft.parse" => row.of \in Ids \ row.late,
           row.pc \in {"store", "done"} => row.answer \in Ids \ row.late /\ Taken(row.answer),
           row.pc = "done" /\ row.op \in {"draft.create", "run.create"} /\ Visible(row.answer)
              => fobj[row.answer].under = row.key
    PROVE  DraftInv'
<1>1. fcall'[c] = row /\ \A d \in FdCalls : d # c => fcall'[d] = fcall[d]
  BY DEF DraftInv, DraftTyped
<1>2. DraftTyped'
  BY DEF DraftInv, DraftTyped
<1>3. TombsAreHidden' /\ ObjectsHaveKeys' /\ KeysHaveObjects'
  BY DEF DraftInv, TombsAreHidden, ObjectsHaveKeys, KeysHaveObjects, Visible, Exists
<1>4. \A i : (Taken(i)' <=> Taken(i)) /\ (Visible(i)' <=> Visible(i))
  BY DEF Taken, Visible, Exists
<1>5. ASSUME NEW d \in FdCalls PROVE CallSound(d)'
  <2>1. CASE d # c
    BY <1>1, <1>4, <2>1, CallUndisturbed DEF DraftInv
  <2>2. CASE d = c
    BY <1>1, <1>4, <2>2 DEF CallSound
  <2>. QED
    BY <2>1, <2>2
<1>. QED
  BY <1>2, <1>3, <1>5 DEF DraftInv

\* Steps that change one object and no call keep every call sound.
LEMMA ObjectMoves ==
    ASSUME DraftInv, UNCHANGED fcall, DraftTyped', TombsAreHidden', ObjectsHaveKeys', KeysHaveObjects',
           tomb \subseteq tomb',
           \A i \in Ids : Taken(i) => Taken(i)',
           \A i \in Ids : Taken(i) /\ Visible(i)' => Visible(i) /\ fobj'[i].under = fobj[i].under
    PROVE  DraftInv'
  BY CallUndisturbed DEF DraftInv

LEMMA StartKeeps == ASSUME DraftInv, NEW c \in FdCalls, NEW k \in FdKeys, Start(c, k) PROVE DraftInv'
<1>1. PICK op \in Operations, i \in Ids \cup {0}, rev \in Int : Begin(c, op, k, i, rev)
  <2>1. \A i \in Ids : fobj[i].rev \in Int
    BY DEF DraftInv, DraftTyped, ObjectRows
  <2>. QED
    BY <2>1 DEF Start, Operations, Op, Kinds
<1> DEFINE row == [pc |-> "reading", op |-> op, key |-> k, of |-> i, rev |-> rev, late |-> tomb, answer |-> 0]
<1>2. row \in CallRows
  BY DEF CallRows, DraftInv, DraftTyped
<1>. QED
  BY <1>1, <1>2, OnlyCallMoves DEF Start, Begin

\* A call that is refused, or has deleted, claims nothing.
LEMMA RefuseKeeps ==
    ASSUME DraftInv, UNCHANGED <<fobj, fkey, tomb, purge>>, NEW c \in FdCalls,
           NEW pc \in {"refused", "deleted", "remove"}, fcall' = [fcall EXCEPT ![c].pc = pc]
    PROVE  DraftInv'
<1> DEFINE row == [fcall[c] EXCEPT !.pc = pc]
<1>1. fcall[c] \in CallRows /\ CallSound(c)
  BY DEF DraftInv, DraftTyped
<1>2. row \in CallRows /\ row.pc = pc /\ row.late = fcall[c].late
  BY <1>1 DEF CallRows
<1>3. fcall' = [fcall EXCEPT ![c] = row] /\ row.late \subseteq tomb
  BY <1>1, <1>2 DEF CallSound
<1>. HIDE DEF row
<1>. QED
  BY <1>2, <1>3, OnlyCallMoves

LEMMA ReplayKeeps == ASSUME DraftInv, NEW c \in FdCalls, Replay(c) PROVE DraftInv'
<1>1. CASE Refuse(c)
  BY <1>1, RefuseKeeps DEF Replay, Refuse
<1>2. CASE /\ ReplayIsVisible(Known(c))
           /\ fcall' = [fcall EXCEPT ![c].pc = IF fcall[c].op = "document.create" THEN "store" ELSE "done",
                                     ![c].answer = Known(c)]
  <2> DEFINE pc == IF fcall[c].op = "document.create" THEN "store" ELSE "done"
             row == [fcall[c] EXCEPT !.pc = pc, !.answer = Known(c)]
  <2>1. fcall[c] \in CallRows /\ CallSound(c) /\ fcall[c].pc = "reading"
    BY DEF DraftInv, DraftTyped, Replay
  <2>2. fcall[c].op \in Operations /\ fcall[c].key \in FdKeys
    BY <2>1 DEF CallSound
  <2>3. Known(c) \in Ids
    BY <2>2 DEF Known, DraftInv, DraftTyped, Replay
  <2>4. /\ row \in CallRows /\ row.pc = pc /\ row.answer = Known(c)
        /\ row.late = fcall[c].late /\ row.op = fcall[c].op /\ row.key = fcall[c].key
    BY <2>1, <2>3 DEF CallRows
  <2>5. Known(c) \notin fcall[c].late
    BY <1>2, <2>1 DEF CallSound, ReplayIsVisible
  <2>6. fobj[Known(c)].kind # "none" /\ (fcall[c].op # "draft.parse" => fobj[Known(c)].under = fcall[c].key)
    BY <2>2, <2>3, OperationsOfKinds DEF Known, DraftInv, KeysHaveObjects
  <2>7. fcall' = [fcall EXCEPT ![c] = row] /\ row.late \subseteq tomb /\ pc \in {"store", "done"}
    BY <1>2, <2>1, <2>4 DEF CallSound
  <2>8. Taken(row.answer) /\ row.answer \in Ids \ row.late
    BY <2>3, <2>4, <2>5, <2>6 DEF Taken
  <2>9. UNCHANGED <<fobj, fkey, tomb, purge>>
    BY DEF Replay
  <2>10. row.pc = "store" => row.op = "document.create"
    BY <2>4
  <2>11. row.pc # "write" /\ row.op \in Operations /\ row.key \in FdKeys
         /\ (row.op # "draft.parse" => fobj[row.answer].under = row.key)
    BY <2>2, <2>4, <2>6, <2>7
  <2>. HIDE DEF row, pc
  <2>. QED
    BY <2>4, <2>7, <2>8, <2>9, <2>10, <2>11, OnlyCallMoves
<1>. QED
  BY <1>1, <1>2 DEF Replay

\* A set of numbers up to n has a least one.
LEMMA LeastOf ==
    ASSUME NEW n \in Nat, NEW S, S \subseteq 1..n, S # {}
    PROVE  \E i \in S : \A j \in S : i <= j
<1> DEFINE D == 1..n
           UpTo(i) == {j \in S : j <= i}
           T == {UpTo(i) : i \in S}
<1>a. IsFiniteSet(D)
  BY FS_Interval
<1>1. T \subseteq SUBSET D /\ T # {}
  OBVIOUS
<1>2. PICK X \in T : \A Y \in T : ~(Y \subseteq X /\ Y # X)
  <2>. HIDE DEF T, D
  <2>. QED
    BY <1>a, <1>1, SmallestSubset
<1>3. PICK i \in S : X = UpTo(i)
  OBVIOUS
<1>4. ASSUME NEW j \in S, ~(i <= j) PROVE FALSE
  <2>1. i \in Int /\ j \in Int /\ \A k \in S : k \in Int
    OBVIOUS
  <2>2. j <= i /\ j # i /\ \A k \in S : k <= j => k <= i
    BY <1>4, <2>1
  <2>3. i \in X /\ i \notin UpTo(j)
    BY <1>3, <1>4, <2>1
  <2>4. UpTo(j) \subseteq X /\ UpTo(j) \in T
    BY <1>3, <2>2
  <2>. QED
    BY <1>2, <2>3, <2>4
<1>. QED
  BY <1>4

LEMMA PriorIsVisible == ASSUME PriorDocument # 0 PROVE PriorDocument \in Ids /\ Visible(PriorDocument)
<1>1. Documents # {} /\ Documents \subseteq 1..MaxObjects
  BY DEF PriorDocument, Documents, Ids
<1>2. \E i \in Documents : \A j \in Documents : i <= j
  BY <1>1, LeastOf, DraftAssumption
<1>. QED
  BY <1>1, <1>2 DEF PriorDocument, Documents, Of

LEMMA ReadKeeps == ASSUME DraftInv, NEW c \in FdCalls, Read(c) PROVE DraftInv'
<1>. USE DEF Read
<1>0. fcall[c] \in CallRows /\ CallSound(c) /\ fcall[c].pc = "reading" /\ TombsAreHidden
  BY DEF DraftInv, DraftTyped
<1>1. CASE Refuse(c)
  BY <1>1, RefuseKeeps DEF Refuse
<1>2. CASE /\ PriorDocument # 0 /\ fcall[c].op = "document.create"
           /\ fcall' = [fcall EXCEPT ![c].pc = "store", ![c].answer = PriorDocument]
  <2> DEFINE row == [fcall[c] EXCEPT !.pc = "store", !.answer = PriorDocument]
  <2>1. PriorDocument \in Ids /\ Visible(PriorDocument)
    BY <1>2, PriorIsVisible
  <2>2. /\ row \in CallRows /\ row.pc = "store" /\ row.answer = PriorDocument
        /\ row.late = fcall[c].late /\ row.op = fcall[c].op /\ row.key = fcall[c].key
    BY <1>0, <2>1 DEF CallRows
  <2>3. PriorDocument \notin fcall[c].late /\ Taken(PriorDocument)
    BY <1>0, <2>1 DEF CallSound, TombsAreHidden, Taken, Visible, Exists
  <2>4. fcall' = [fcall EXCEPT ![c] = row] /\ row.late \subseteq tomb
        /\ row.op = "document.create" /\ row.op \in Operations /\ row.key \in FdKeys
    BY <1>0, <1>2, <2>2 DEF CallSound
  <2>. HIDE DEF row
  <2>. QED
    BY <2>1, <2>2, <2>3, <2>4, OnlyCallMoves
<1>3. CASE Reads(c) /\ fcall' = [fcall EXCEPT ![c].pc = "write"]
  <2> DEFINE row == [fcall[c] EXCEPT !.pc = "write"]
  <2>1. /\ row \in CallRows /\ row.pc = "write" /\ row.of = fcall[c].of
        /\ row.late = fcall[c].late /\ row.op = fcall[c].op /\ row.key = fcall[c].key
    BY <1>0 DEF CallRows
  <2>2. ASSUME row.op = "draft.parse" PROVE row.of \in Ids \ row.late
    <3>1. Of("draft", fcall[c].of)
      BY <1>3, <2>1, <2>2 DEF Reads
    <3>2. Visible(fcall[c].of) /\ fcall[c].of # 0 /\ fcall[c].of \in Ids \cup {0}
      BY <1>0, <3>1 DEF Of, Visible, Exists, CallRows
    <3>. QED
      BY <1>0, <2>1, <3>2 DEF TombsAreHidden, CallSound
  <2>3. fcall' = [fcall EXCEPT ![c] = row] /\ row.late \subseteq tomb
        /\ row.op \in Operations /\ row.key \in FdKeys
    BY <1>0, <1>3, <2>1 DEF CallSound
  <2>. HIDE DEF row
  <2>. QED
    BY <2>1, <2>2, <2>3, OnlyCallMoves
<1>. QED
  BY <1>1, <1>2, <1>3

LEMMA StoreKeeps == ASSUME DraftInv, NEW c \in FdCalls, Store(c) PROVE DraftInv'
<1>. USE DEF Store
<1>0. fcall[c] \in CallRows /\ CallSound(c) /\ fcall[c].pc = "store"
  BY DEF DraftInv, DraftTyped
<1>1. CASE Refuse(c)
  BY <1>1, RefuseKeeps DEF Refuse
<1>2. CASE Answer(c, fcall[c].answer)
  <2> DEFINE row == [fcall[c] EXCEPT !.pc = "done"]
  <2>1. /\ row \in CallRows /\ row.pc = "done" /\ row.answer = fcall[c].answer
        /\ row.late = fcall[c].late /\ row.op = "document.create"
    BY <1>0 DEF CallRows, CallSound
  <2>2. fcall' = [fcall EXCEPT ![c] = row] /\ row.late \subseteq tomb
    BY <1>0, <1>2, <2>1 DEF CallSound, Answer, CallRows
  <2>3. row.answer \in Ids \ row.late /\ Taken(row.answer)
    BY <1>0, <2>1 DEF CallSound
  <2>. HIDE DEF row
  <2>. QED
    BY <2>1, <2>2, <2>3, OnlyCallMoves
<1>. QED
  BY <1>1, <1>2

LEMMA ThreeFields ==
    ASSUME NEW A, NEW B, NEW C, NEW D, NEW E, NEW F, NEW G,
           NEW q \in [pc : A, op : B, key : C, of : D, rev : E, late : F, answer : G],
           NEW a \in A, NEW d \in D, NEW f \in F
    PROVE  /\ [q EXCEPT !.pc = a, !.of = d, !.late = f]
                  \in [pc : A, op : B, key : C, of : D, rev : E, late : F, answer : G]
           /\ [q EXCEPT !.pc = a, !.of = d, !.late = f].pc = a
           /\ [q EXCEPT !.pc = a, !.of = d, !.late = f].late = f
  OBVIOUS

LEMMA QuietKeeps ==
    ASSUME DraftInv, UNCHANGED <<fobj, fkey, tomb, purge>>, NEW c \in FdCalls,
           NEW pc \in {"idle", "delete"}, NEW i \in Ids \cup {0}, NEW late \in SUBSET tomb,
           fcall' = [fcall EXCEPT ![c] = [Quiet EXCEPT !.pc = pc, !.of = i, !.late = late]]
    PROVE  DraftInv'
<1> DEFINE row == [Quiet EXCEPT !.pc = pc, !.of = i, !.late = late]
<1>0. late \in SUBSET Ids
  BY DEF DraftInv, DraftTyped
<1>1. row \in CallRows /\ row.pc = pc /\ row.late = late
  <2>1. Quiet \in CallRows
    BY DEF CallRows, Quiet
  <2>2. pc \in {"idle", "reading", "write", "store", "done", "refused", "delete", "remove", "deleted"}
    OBVIOUS
  <2>. QED
    BY <1>0, <2>1, <2>2, ThreeFields DEF CallRows
<1>2. fcall' = [fcall EXCEPT ![c] = row]
  OBVIOUS
<1>. HIDE DEF row
<1>. QED
  BY <1>1, <1>2, OnlyCallMoves

LEMMA AgainKeeps == ASSUME DraftInv, NEW c \in FdCalls, Again(c) PROVE DraftInv'
<1>1. Quiet \in CallRows /\ Quiet.pc = "idle" /\ Quiet.late = {}
  BY DEF CallRows, Quiet
<1>. QED
  BY <1>1, OnlyCallMoves DEF Again

LEMMA BeginDeleteKeeps ==
    ASSUME DraftInv, NEW c \in FdCalls, NEW i \in Ids, BeginDelete(c, i) PROVE DraftInv'
  BY QuietKeeps DEF BeginDelete

\* An object that only its revision or its parse changes.
LEMMA RevisionMoves ==
    ASSUME DraftInv, UNCHANGED <<fkey, tomb, purge>>, NEW i \in Ids, fobj' \in [Ids -> ObjectRows],
           \A j \in Ids : /\ fobj'[j].kind = fobj[j].kind /\ fobj'[j].under = fobj[j].under
                          /\ fobj'[j].hidden = fobj[j].hidden
    PROVE  /\ TombsAreHidden' /\ ObjectsHaveKeys' /\ KeysHaveObjects'
           /\ \A j \in Ids : (Taken(j)' <=> Taken(j)) /\ (Visible(j)' <=> Visible(j))
<1>1. \A j \in Ids : (Taken(j)' <=> Taken(j)) /\ (Visible(j)' <=> Visible(j))
  BY DEF Taken, Visible, Exists
<1>2. TombsAreHidden'
  BY <1>1 DEF TombsAreHidden, DraftInv, DraftTyped
<1>3. ObjectsHaveKeys'
  BY DEF ObjectsHaveKeys, DraftInv
<1>4. KeysHaveObjects'
  <2>1. \A o \in Operations, k \in FdKeys : fkey[o][k] # 0 => fkey[o][k] \in Ids
    BY DEF DraftInv, DraftTyped
  <2>. QED
    BY <2>1 DEF KeysHaveObjects, DraftInv
<1>. QED
  BY <1>1, <1>2, <1>3, <1>4

LEMMA Revised ==
    ASSUME NEW A, NEW B, NEW C, NEW D, NEW E, NEW F,
           NEW o \in [kind : A, under : B, hidden : C, ref : D, rev : E, parsed : F], NEW r \in E, NEW p \in F
    PROVE  [o EXCEPT !.rev = r, !.parsed = p] \in [kind : A, under : B, hidden : C, ref : D, rev : E, parsed : F]
  OBVIOUS

LEMMA PatchKeeps == ASSUME DraftInv, NEW i \in Ids, PatchDraft(i) PROVE DraftInv'
<1>1. fobj[i] \in ObjectRows
  BY DEF DraftInv, DraftTyped
<1>0. PICK r \in Int : r = fobj[i].rev + 1
  BY <1>1 DEF ObjectRows
<1>2. [fobj[i] EXCEPT !.rev = r, !.parsed = 0] \in ObjectRows
  <2>1. 0 \in Int
    OBVIOUS
  <2>. QED
    BY <1>1, <2>1, Revised DEF ObjectRows
<1>3. fobj' \in [Ids -> ObjectRows]
  BY <1>0, <1>2 DEF PatchDraft, DraftInv, DraftTyped
<1>4. \A j \in Ids : /\ fobj'[j].kind = fobj[j].kind /\ fobj'[j].under = fobj[j].under
                     /\ fobj'[j].hidden = fobj[j].hidden
  BY <1>1 DEF PatchDraft, DraftInv, DraftTyped, ObjectRows
<1>5. UNCHANGED <<fkey, tomb, purge, fcall>>
  BY DEF PatchDraft
<1>6. DraftTyped'
  BY <1>3, <1>5 DEF DraftInv, DraftTyped
<1>. QED
  BY <1>3, <1>4, <1>5, <1>6, RevisionMoves, ObjectMoves

LEMMA ParseKeeps == ASSUME DraftInv, NEW c \in FdCalls, Parse(c) PROVE DraftInv'
<1>i. PICK i : i = fcall[c].of
  OBVIOUS
<1>0. /\ fcall[c] \in CallRows /\ CallSound(c)
      /\ fcall[c].pc = "write" /\ fcall[c].op = "draft.parse" /\ UNCHANGED <<tomb, purge>>
  BY DEF DraftInv, DraftTyped, Parse
<1>1. CASE Refuse(c) /\ UNCHANGED <<fobj, fkey>>
  BY <1>0, <1>1, RefuseKeeps DEF Refuse
<1>2. CASE /\ Exists(i) /\ fobj' = [fobj EXCEPT ![i].parsed = fcall[c].rev]
           /\ fkey' = [fkey EXCEPT !["draft.parse"][fcall[c].key] = i]
           /\ Answer(c, i)
  <2>1. i \in Ids \ fcall[c].late /\ fcall[c].key \in FdKeys /\ "draft.parse" \in Operations
    BY <1>0, <1>i DEF CallSound
  <2>2. fobj[i] \in ObjectRows /\ fcall[c].rev \in Int
    BY <1>0, <2>1 DEF DraftInv, DraftTyped, CallRows
  <2>3. fobj' \in [Ids -> ObjectRows]
    BY <1>2, <2>1, <2>2 DEF DraftInv, DraftTyped, ObjectRows
  <2>4. \A j \in Ids : /\ fobj'[j].kind = fobj[j].kind /\ fobj'[j].under = fobj[j].under
                       /\ fobj'[j].hidden = fobj[j].hidden
    BY <1>2, <2>1, <2>2 DEF DraftInv, DraftTyped, ObjectRows
  <2>5. /\ fkey' \in [Operations -> [FdKeys -> Ids \cup {0}]]
        /\ fkey'["draft.parse"][fcall[c].key] = i
        /\ \A o \in Operations, k \in FdKeys :
              o # "draft.parse" \/ k # fcall[c].key => fkey'[o][k] = fkey[o][k]
    BY <1>2, <2>1 DEF DraftInv, DraftTyped
  <2>6. \A j \in Ids : (Taken(j)' <=> Taken(j)) /\ (Visible(j)' <=> Visible(j))
    BY <1>0, <2>4 DEF Taken, Visible, Exists
  <2>7. TombsAreHidden'
    BY <1>0, <2>6 DEF TombsAreHidden, DraftInv, DraftTyped
  <2>8. ObjectsHaveKeys'
    <3>1. \A j \in Ids : fobj[j].kind # "none" =>
             fobj[j].under \in FdKeys /\ Op[fobj[j].kind] \in Operations \ {"draft.parse"}
      BY OperationsOfKinds DEF DraftInv, DraftTyped, ObjectRows, ObjectsHaveKeys
    <3>. QED
      BY <2>4, <2>5, <3>1 DEF ObjectsHaveKeys, DraftInv
  <2>9. KeysHaveObjects'
    <3>1. \A o \in Operations, k \in FdKeys : fkey[o][k] # 0 => fkey[o][k] \in Ids
      BY DEF DraftInv, DraftTyped
    <3>2. fobj'[i].kind # "none"
      BY <1>2, <2>1, <2>4 DEF Exists
    <3>. QED
      BY <2>1, <2>4, <2>5, <3>1, <3>2 DEF KeysHaveObjects, DraftInv
  <2> DEFINE row == [fcall[c] EXCEPT !.pc = "done", !.answer = i]
  <2>10. /\ row \in CallRows /\ row.pc = "done" /\ row.answer = i
         /\ row.late = fcall[c].late /\ row.op = "draft.parse"
    BY <1>0, <2>1 DEF CallRows
  <2>11. fcall' = [fcall EXCEPT ![c] = row]
    BY <1>2 DEF Answer
  <2>12. fcall'[c] = row /\ \A d \in FdCalls : d # c => fcall'[d] = fcall[d]
    BY <2>11 DEF DraftInv, DraftTyped
  <2>13. DraftTyped'
    BY <1>0, <2>3, <2>5, <2>10, <2>11 DEF DraftInv, DraftTyped
  <2>14. ASSUME NEW d \in FdCalls PROVE CallSound(d)'
    <3>1. CASE d # c
      BY <1>0, <2>4, <2>6, <2>12, <3>1, CallUndisturbed DEF DraftInv
    <3>2. CASE d = c
      <4>1. Taken(i)'
        BY <2>1, <2>4, <1>2 DEF Taken, Exists
      <4>. QED
        BY <1>0, <2>1, <2>10, <2>12, <3>2, <4>1 DEF CallSound
    <3>. QED
      BY <3>1, <3>2
  <2>. QED
    BY <2>7, <2>8, <2>9, <2>13, <2>14 DEF DraftInv
<1>. QED
  BY <1>1, <1>2, <1>i DEF Parse

----------------------------------------------------------------------------
\* A step that changes calls and objects: what a call c that moved needs, the
\* others keep.
LEMMA CallsKept ==
    ASSUME DraftInv, NEW c \in FdCalls, \A d \in FdCalls : d # c => fcall'[d] = fcall[d], CallSound(c)',
           DraftTyped', TombsAreHidden', ObjectsHaveKeys', KeysHaveObjects',
           tomb \subseteq tomb',
           \A i \in Ids : Taken(i) => Taken(i)',
           \A i \in Ids : Taken(i) /\ Visible(i)' => Visible(i) /\ fobj'[i].under = fobj[i].under
    PROVE  DraftInv'
<1>1. ASSUME NEW d \in FdCalls PROVE CallSound(d)'
  <2>1. CASE d # c
    BY <2>1, CallUndisturbed DEF DraftInv
  <2>. QED
    BY <2>1
<1>. QED
  BY <1>1 DEF DraftInv

LEMMA CreateKeeps == ASSUME DraftInv, NEW c \in FdCalls, Create(c) PROVE DraftInv'
<1>0. /\ fcall[c] \in CallRows /\ CallSound(c)
      /\ fcall[c].pc = "write" /\ fcall[c].op # "draft.parse" /\ UNCHANGED <<tomb, purge>>
  BY DEF DraftInv, DraftTyped, Create
<1>k. PICK kind \in Kinds : kind = (CHOOSE k \in Kinds : Op[k] = fcall[c].op) /\ Op[kind] = fcall[c].op
  BY <1>0, OperationsOfKinds DEF CallSound
<1>1. CASE Refuse(c) /\ UNCHANGED <<fobj, fkey>>
  BY <1>0, <1>1, RefuseKeeps DEF Refuse
<1>2. CASE ~(Refuse(c) /\ UNCHANGED <<fobj, fkey>>)
  <2>a. ~KeyTaken(c) /\ ~(KeyTaken(c) /\ Refuse(c) /\ UNCHANGED <<fobj, fkey>>)
    BY <1>2 DEF Create
  <2>b. PICK o, key : o = fcall[c].op /\ key = fcall[c].key
    OBVIOUS
  <2>0. PICK i \in Fresh :
           /\ o = fcall[c].op /\ key = fcall[c].key /\ fkey[o][key] = 0
           /\ fobj' = [fobj EXCEPT ![i] = [kind |-> kind, under |-> key, hidden |-> FALSE,
                           ref |-> fcall[c].of, rev |-> IF kind = "run" THEN fcall[c].rev ELSE 1,
                           parsed |-> 0]]
           /\ fkey' = [fkey EXCEPT ![o][key] = i]
           /\ fcall' = [fcall EXCEPT ![c].pc = IF kind = "document" THEN "store" ELSE "done", ![c].answer = i]
    BY <2>a, <2>b, <1>k DEF Create, KeyTaken, Known
  <2>1. o \in Operations \ {"draft.parse"} /\ key \in FdKeys /\ Op[kind] = o
    BY <1>0, <1>k, <2>0 DEF CallSound
  <2>2. i \in Ids /\ ~Taken(i) /\ i \notin tomb /\ i # 0
    BY OperationsOfKinds DEF Fresh, Taken, DraftInv, TombsAreHidden
  <2>3. /\ fobj'[i].kind = kind /\ fobj'[i].under = key
        /\ \A j \in Ids : j # i => fobj'[j] = fobj[j]
        /\ fobj' \in [Ids -> ObjectRows]
    <3>1. (IF kind = "run" THEN fcall[c].rev ELSE 1) \in Int /\ fcall[c].of \in Ids \cup {0}
      BY <1>0 DEF CallRows
    <3>2. [kind |-> kind, under |-> key, hidden |-> FALSE,
           ref |-> fcall[c].of, rev |-> IF kind = "run" THEN fcall[c].rev ELSE 1, parsed |-> 0] \in ObjectRows
      BY <2>1, <3>1 DEF ObjectRows
    <3>. QED
      BY <2>0, <2>2, <3>2 DEF DraftInv, DraftTyped
  <2>4. /\ fkey' \in [Operations -> [FdKeys -> Ids \cup {0}]]
        /\ fkey'[o][key] = i
        /\ \A p \in Operations, k \in FdKeys : p # o \/ k # key => fkey'[p][k] = fkey[p][k]
    BY <2>0, <2>1, <2>2 DEF DraftInv, DraftTyped
  <2>5. kind # "none"
    BY OperationsOfKinds
  <2>6. /\ \A j \in Ids : Taken(j) => Taken(j)' /\ j # i
        /\ \A j \in Ids : j # i => (Visible(j)' <=> Visible(j))
    BY <1>0, <2>2, <2>3, <2>5 DEF Taken, Visible, Exists
  <2>7. TombsAreHidden'
    BY <1>0, <2>2, <2>6 DEF TombsAreHidden, DraftInv, DraftTyped
  <2>8. ObjectsHaveKeys'
    <3>1. ASSUME NEW j \in Ids, j # i, fobj[j].kind # "none"
          PROVE  fobj[j].under \in FdKeys /\ fkey'[Op[fobj[j].kind]][fobj[j].under] = j
      <4>1. /\ fobj[j].kind \in Kinds /\ Op[fobj[j].kind] \in Operations
            /\ fobj[j].under \in FdKeys /\ fkey[Op[fobj[j].kind]][fobj[j].under] = j
        BY <3>1, OperationsOfKinds DEF DraftInv, DraftTyped, ObjectRows, ObjectsHaveKeys
      <4>2. j # 0 /\ fkey[o][key] = 0
        BY <2>0, OperationsOfKinds
      <4>. QED
        BY <2>4, <4>1, <4>2
    <3>. QED
      BY <2>1, <2>3, <2>4, <3>1 DEF ObjectsHaveKeys
  <2>9. KeysHaveObjects'
    <3>1. ASSUME NEW p \in Operations, NEW k \in FdKeys, p # o \/ k # key, fkey[p][k] # 0
          PROVE  fkey[p][k] \in Ids /\ fkey[p][k] # i
      BY <2>2, <3>1 DEF DraftInv, DraftTyped, KeysHaveObjects, Taken
    <3>2. ASSUME NEW p \in Operations, NEW k \in FdKeys, p # o \/ k # key, fkey'[p][k] # 0
          PROVE  /\ fobj'[fkey'[p][k]].kind # "none"
                 /\ p # "draft.parse" => Op[fobj'[fkey'[p][k]].kind] = p /\ fobj'[fkey'[p][k]].under = k
      BY <2>3, <2>4, <3>1, <3>2 DEF DraftInv, KeysHaveObjects
    <3>. QED
      BY <2>1, <2>3, <2>4, <2>5, <3>2 DEF KeysHaveObjects
  <2> DEFINE pc == IF kind = "document" THEN "store" ELSE "done"
             row == [fcall[c] EXCEPT !.pc = pc, !.answer = i]
  <2>10. /\ row \in CallRows /\ row.pc = pc /\ row.answer = i
         /\ row.late = fcall[c].late /\ row.op = o /\ row.key = key
    <3>1. pc \in {"idle", "reading", "write", "store", "done", "refused", "delete", "remove", "deleted"}
      OBVIOUS
    <3>. HIDE DEF pc
    <3>. QED
      BY <1>0, <2>0, <2>2, <3>1 DEF CallRows
  <2>11. fcall' = [fcall EXCEPT ![c] = row]
    BY <2>0
  <2>12. fcall'[c] = row /\ \A d \in FdCalls : d # c => fcall'[d] = fcall[d]
    BY <2>11 DEF DraftInv, DraftTyped
  <2>13. DraftTyped'
    BY <1>0, <2>3, <2>4, <2>10, <2>11 DEF DraftInv, DraftTyped
  <2>14. CallSound(c)'
    <3>1. Taken(i)' /\ i \notin row.late /\ row.late \subseteq tomb
      BY <1>0, <2>2, <2>3, <2>5, <2>10 DEF Taken, CallSound
    <3>2. pc = "store" => o = "document.create"
      BY <2>1 DEF Op
    <3>. HIDE DEF row
    <3>. QED
      BY <1>0, <2>1, <2>2, <2>3, <2>10, <2>12, <3>1, <3>2 DEF CallSound
  <2>. QED
    BY <1>0, <2>3, <2>6, <2>7, <2>8, <2>9, <2>12, <2>13, <2>14, CallsKept
<1>. QED
  BY <1>1, <1>2

\* An object that is hidden, whether it is deleted or has expired.
LEMMA HidingKeeps ==
    ASSUME DraftInv, NEW i \in Ids, Visible(i), UNCHANGED fkey,
           fobj' = [fobj EXCEPT ![i].hidden = TRUE], tomb' \in {tomb, tomb \cup {i}},
           purge' = [purge EXCEPT ![i] = "scheduled"]
    PROVE  /\ fobj' \in [Ids -> ObjectRows] /\ purge' \in [Ids -> {"none", "scheduled", "purged"}]
           /\ TombsAreHidden' /\ ObjectsHaveKeys' /\ KeysHaveObjects'
           /\ \A j \in Ids : Taken(j) => Taken(j)'
           /\ \A j \in Ids : Visible(j)' => Visible(j) /\ fobj'[j].under = fobj[j].under
<1>1. /\ fobj' \in [Ids -> ObjectRows] /\ purge' \in [Ids -> {"none", "scheduled", "purged"}]
      /\ purge'[i] # "none" /\ \A j \in Ids : j # i => purge'[j] = purge[j]
      /\ fobj'[i].hidden
      /\ \A j \in Ids : /\ fobj'[j].kind = fobj[j].kind /\ fobj'[j].under = fobj[j].under
                        /\ j # i => fobj'[j].hidden = fobj[j].hidden
  BY DEF DraftInv, DraftTyped, ObjectRows
<1>2. /\ \A j \in Ids : Taken(j) => Taken(j)'
      /\ \A j \in Ids : Visible(j)' => Visible(j) /\ j # i
  BY <1>1 DEF Taken, Visible, Exists
<1>3. TombsAreHidden'
  BY <1>1, <1>2 DEF TombsAreHidden, DraftInv, DraftTyped
<1>4. ObjectsHaveKeys'
  BY <1>1 DEF ObjectsHaveKeys, DraftInv
<1>5. KeysHaveObjects'
  <2>1. \A o \in Operations, k \in FdKeys : fkey[o][k] # 0 => fkey[o][k] \in Ids
    BY DEF DraftInv, DraftTyped
  <2>. QED
    BY <1>1, <2>1 DEF KeysHaveObjects, DraftInv
<1>. QED
  BY <1>1, <1>2, <1>3, <1>4, <1>5

LEMMA DeleteKeeps == ASSUME DraftInv, NEW c \in FdCalls, Delete(c) PROVE DraftInv'
<1>i. PICK i : i = fcall[c].of
  OBVIOUS
<1>0. fcall[c] \in CallRows /\ CallSound(c) /\ UNCHANGED fkey
  BY DEF DraftInv, DraftTyped, Delete
<1>1. CASE Refuse(c) /\ UNCHANGED <<fobj, tomb, purge>>
  BY <1>0, <1>1, RefuseKeeps DEF Refuse
<1>2. CASE ~(Refuse(c) /\ UNCHANGED <<fobj, tomb, purge>>)
  <2>0. PICK pc \in {"remove", "deleted"} :
           /\ Visible(i) /\ fobj' = [fobj EXCEPT ![i].hidden = TRUE] /\ tomb' = tomb \cup {i}
           /\ purge' = [purge EXCEPT ![i] = "scheduled"]
           /\ fcall' = [fcall EXCEPT ![c].pc = pc]
    BY <1>i, <1>2 DEF Delete
  <2>1. i \in Ids
    BY <1>0, <1>i, <2>0 DEF CallRows, Visible, Exists
  <2>2. /\ fobj' \in [Ids -> ObjectRows] /\ purge' \in [Ids -> {"none", "scheduled", "purged"}]
        /\ TombsAreHidden' /\ ObjectsHaveKeys' /\ KeysHaveObjects'
        /\ \A j \in Ids : Taken(j) => Taken(j)'
        /\ \A j \in Ids : Visible(j)' => Visible(j) /\ fobj'[j].under = fobj[j].under
    BY <1>0, <2>0, <2>1, HidingKeeps
  <2> DEFINE row == [fcall[c] EXCEPT !.pc = pc]
  <2>3. row \in CallRows /\ row.pc = pc /\ row.late = fcall[c].late
    BY <1>0 DEF CallRows
  <2>4. fcall'[c] = row /\ \A d \in FdCalls : d # c => fcall'[d] = fcall[d]
    BY <2>0 DEF DraftInv, DraftTyped
  <2>5. DraftTyped'
    BY <1>0, <2>0, <2>1, <2>2, <2>3 DEF DraftInv, DraftTyped
  <2>6. CallSound(c)'
    BY <1>0, <2>0, <2>3, <2>4 DEF CallSound
  <2>. QED
    BY <2>0, <2>2, <2>4, <2>5, <2>6, CallsKept
<1>. QED
  BY <1>1, <1>2

LEMMA ExpireKeeps == ASSUME DraftInv, NEW i \in Ids, PurgeDueDocuments(i) PROVE DraftInv'
<1>1. Visible(i) /\ UNCHANGED <<fkey, tomb, fcall>>
  BY DEF PurgeDueDocuments, Of
<1>2. /\ fobj' \in [Ids -> ObjectRows] /\ purge' \in [Ids -> {"none", "scheduled", "purged"}]
      /\ TombsAreHidden' /\ ObjectsHaveKeys' /\ KeysHaveObjects'
      /\ \A j \in Ids : Taken(j) => Taken(j)'
      /\ \A j \in Ids : Visible(j)' => Visible(j) /\ fobj'[j].under = fobj[j].under
  BY <1>1, HidingKeeps DEF PurgeDueDocuments
<1>3. DraftTyped'
  BY <1>1, <1>2 DEF DraftInv, DraftTyped
<1>. QED
  BY <1>1, <1>2, <1>3, ObjectMoves

LEMMA PurgeKeeps == ASSUME DraftInv, NEW i \in Ids, PurgeDueDeletionJob(i) PROVE DraftInv'
<1>1. UNCHANGED <<tomb, fcall>> /\ purge[i] = "scheduled"
  BY DEF PurgeDueDeletionJob
<1>2. Absent \in ObjectRows /\ Absent.kind = "none"
  BY DEF Absent, ObjectRows
<1>3. /\ fobj' \in [Ids -> ObjectRows] /\ fobj'[i] = Absent
      /\ \A j \in Ids : j # i => fobj'[j] = fobj[j]
      /\ purge' \in [Ids -> {"none", "scheduled", "purged"}]
      /\ purge'[i] = "purged" /\ \A j \in Ids : j # i => purge'[j] = purge[j]
  BY <1>2 DEF PurgeDueDeletionJob, DraftInv, DraftTyped
<1>4. /\ fkey' \in [Operations -> [FdKeys -> Ids \cup {0}]]
      /\ \A o \in Operations, k \in FdKeys : fkey'[o][k] = IF fkey[o][k] = i THEN 0 ELSE fkey[o][k]
  BY DEF PurgeDueDeletionJob, DraftInv, DraftTyped
<1>5. DraftTyped'
  BY <1>1, <1>3, <1>4 DEF DraftInv, DraftTyped
<1>6. /\ \A j \in Ids : Taken(j) => Taken(j)'
      /\ \A j \in Ids : Visible(j)' => Visible(j) /\ j # i
  BY <1>2, <1>3 DEF Taken, Visible, Exists
<1>7. TombsAreHidden'
  BY <1>1, <1>3, <1>6 DEF TombsAreHidden, DraftInv, DraftTyped
<1>8. ObjectsHaveKeys'
  <2>1. ASSUME NEW j \in Ids, j # i, fobj[j].kind # "none"
        PROVE  fobj[j].under \in FdKeys /\ fkey'[Op[fobj[j].kind]][fobj[j].under] = j
    <3>1. /\ fobj[j].kind \in Kinds /\ Op[fobj[j].kind] \in Operations
          /\ fobj[j].under \in FdKeys /\ fkey[Op[fobj[j].kind]][fobj[j].under] = j
      BY <2>1, OperationsOfKinds DEF DraftInv, DraftTyped, ObjectRows, ObjectsHaveKeys
    <3>. QED
      BY <1>4, <2>1, <3>1
  <2>. QED
    BY <1>2, <1>3, <2>1 DEF ObjectsHaveKeys
<1>9. KeysHaveObjects'
  <2>1. \A o \in Operations, k \in FdKeys : fkey'[o][k] # 0 =>
           fkey'[o][k] = fkey[o][k] /\ fkey[o][k] \in Ids /\ fkey[o][k] # i
    BY <1>4 DEF DraftInv, DraftTyped
  <2>. QED
    BY <1>3, <2>1 DEF KeysHaveObjects, DraftInv
<1>. QED
  BY <1>1, <1>3, <1>5, <1>6, <1>7, <1>8, <1>9, ObjectMoves

----------------------------------------------------------------------------
LEMMA DraftStep == ASSUME DraftInv, [DraftNext]_fdVars PROVE DraftInv'
<1>1. CASE UNCHANGED fdVars
  <2>1. UNCHANGED <<fobj, fkey, tomb, purge, fcall>>
    BY <1>1 DEF fdVars
  <2>2. DraftTyped' /\ TombsAreHidden' /\ ObjectsHaveKeys' /\ KeysHaveObjects'
    BY <2>1 DEF DraftInv, DraftTyped, TombsAreHidden, ObjectsHaveKeys, KeysHaveObjects, Visible, Exists
  <2>3. \A i : (Taken(i)' <=> Taken(i)) /\ (Visible(i)' <=> Visible(i))
    BY <2>1 DEF Taken, Visible, Exists
  <2>. QED
    BY <2>1, <2>2, <2>3, ObjectMoves
<1>2. ASSUME NEW c \in FdCalls, Remove(c) PROVE DraftInv'
  BY <1>2, RefuseKeeps DEF Remove
<1>. QED
  BY <1>1, <1>2, StartKeeps, ReplayKeeps, ReadKeeps, CreateKeeps, ParseKeeps, StoreKeeps, BeginDeleteKeeps,
     DeleteKeeps, AgainKeeps, PatchKeeps, ExpireKeeps, PurgeKeeps DEF DraftNext

LEMMA DraftInitInv == ASSUME DraftInit PROVE DraftInv
<1>1. Absent \in ObjectRows /\ Absent.kind = "none" /\ Quiet \in CallRows /\ Quiet.pc = "idle" /\ Quiet.late = {}
  BY DEF Absent, ObjectRows, Quiet, CallRows
<1>2. DraftTyped
  BY <1>1 DEF DraftInit, DraftTyped
<1>3. TombsAreHidden /\ ObjectsHaveKeys /\ KeysHaveObjects
  BY <1>1 DEF DraftInit, TombsAreHidden, ObjectsHaveKeys, KeysHaveObjects
<1>4. \A c \in FdCalls : CallSound(c)
  BY <1>1 DEF DraftInit, CallSound
<1>. QED
  BY <1>2, <1>3, <1>4 DEF DraftInv

LEMMA DraftInvImplies == ASSUME DraftInv PROVE KeysAndDeletionsHold
<1>1. HiddenStaysHidden
  BY DEF HiddenStaysHidden, DraftInv, CallSound
<1>2. OneObjectPerKey
  BY DEF OneObjectPerKey, DraftInv, CallSound, ObjectsHaveKeys, Visible, Exists
<1>. QED
  BY <1>1, <1>2 DEF KeysAndDeletionsHold

\* However the calls of an owner, his deletions and the purge cross, a call never
\* answers with an object deleted before it began, and one key never makes two
\* objects that are both there (domain.go, deletion_idempotency.go, cleanup_db.go).
THEOREM KeysAndDeletions == DraftSpec => []KeysAndDeletionsHold
<1>1. DraftInit => DraftInv
  BY DraftInitInv
<1>2. DraftInv /\ [DraftNext]_fdVars => DraftInv'
  BY DraftStep
<1>3. DraftInv => KeysAndDeletionsHold
  BY DraftInvImplies
<1>. QED
  BY <1>1, <1>2, <1>3, PTL DEF DraftSpec

----------------------------------------------------------------------------
(***************************************************************************)
(* FuturesEvidence: what a report cites was the newest of its time.        *)
(***************************************************************************)

ObservationRows == [point : FePoints, rev : Int, usable : Int, src : FeSources,
                    scope : {"readable", "others"}, ok : BOOLEAN]
RunRows == [st : {"none", "queued", "executing", "verified", "published", "failed"},
            asof : Int, manifest : SUBSET Nat, cited : SUBSET Nat]

EvidenceTyped ==
    /\ feobs \in Seq(ObservationRows) /\ ferun \in RunRows /\ fesrc \subseteq FeSources
    /\ feknown \in Nat /\ feclock \in Int

\* A record of the manifest was usable at the as_of, and of the rows that there
\* were when it was frozen none that is still enabled came after it.
NewestThen(i) ==
    /\ i \in 1..feknown
    /\ feobs[i].usable <= ferun.asof /\ feobs[i].scope = "readable"
    /\ \A j \in 1..feknown :
          feobs[j].point = feobs[i].point /\ UsableFor(j, ferun.asof) => ~Older(i, j)

EvidenceInv ==
    /\ EvidenceTyped
    /\ feknown <= Len(feobs)
    /\ ferun.st \in {"executing", "verified", "published"} => \A i \in ferun.manifest : NewestThen(i)
    /\ ferun.st \in {"verified", "published"} => ferun.cited \subseteq ferun.manifest

\* Rows that are appended, and sources that are switched off, change nothing of it.
LEMMA StillNewest ==
    ASSUME EvidenceInv, NEW i, NewestThen(i),
           feknown' = feknown, ferun'.asof = ferun.asof, fesrc' \subseteq fesrc,
           \A j \in 1..Len(feobs) : feobs'[j] = feobs[j]
    PROVE  NewestThen(i)'
<1>1. \A j \in 1..feknown : feobs'[j] = feobs[j]
  BY DEF EvidenceInv, EvidenceTyped
<1>2. \A j \in 1..feknown : UsableFor(j, ferun.asof)' => UsableFor(j, ferun.asof)
  BY <1>1 DEF UsableFor
<1>3. i \in 1..feknown /\ \A j \in 1..feknown : Older(i, j)' <=> Older(i, j)
  BY <1>1 DEF NewestThen, Older
<1>. QED
  BY <1>1, <1>2, <1>3 DEF NewestThen

LEMMA EvidenceOther ==
    ASSUME EvidenceInv, EvidenceTyped', feknown' = feknown, fesrc' \subseteq fesrc,
           \A j \in 1..Len(feobs) : feobs'[j] = feobs[j], Len(feobs') >= Len(feobs),
           ferun'.asof = ferun.asof, ferun'.manifest = ferun.manifest,
           ferun'.st \in {"executing", "verified", "published"} =>
               ferun.st \in {"executing", "verified", "published"},
           ferun'.st \in {"verified", "published"} => ferun'.cited \subseteq ferun.manifest
    PROVE  EvidenceInv'
<1>1. feknown' <= Len(feobs')
  BY DEF EvidenceInv, EvidenceTyped
<1>2. ferun'.st \in {"executing", "verified", "published"} => \A i \in ferun'.manifest : NewestThen(i)'
  BY StillNewest DEF EvidenceInv
<1>. QED
  BY <1>1, <1>2 DEF EvidenceInv

LEMMA EvidenceStep == ASSUME EvidenceInv, [EvidenceNext]_feVars PROVE EvidenceInv'
<1>. USE DEF EvidenceTyped
<1>0. EvidenceTyped /\ Len(feobs) \in Nat
  BY DEF EvidenceInv
<1>1. CASE UNCHANGED feVars
  BY <1>0, <1>1, EvidenceOther DEF feVars, EvidenceInv
<1>2. ASSUME NEW p \in FePoints, NEW rev \in 1..MaxRevision, NEW usable \in 1..MaxFeClock,
             NEW s \in FeSources, NEW scope \in {"readable", "others"}, NEW ok \in BOOLEAN,
             ingestObservation(p, rev, usable, s, scope, ok)
      PROVE  EvidenceInv'
  <2>1. [point |-> p, rev |-> rev, usable |-> usable, src |-> s, scope |-> scope, ok |-> ok] \in ObservationRows
    BY EvidenceAssumption DEF ObservationRows
  <2>2. /\ feobs' \in Seq(ObservationRows) /\ Len(feobs') = Len(feobs) + 1
        /\ \A j \in 1..Len(feobs) : feobs'[j] = feobs[j]
    BY <1>0, <1>2, <2>1 DEF ingestObservation
  <2>. QED
    BY <1>0, <1>2, <2>2, EvidenceOther DEF ingestObservation, EvidenceInv
<1>3. ASSUME NEW s \in FeSources, DisableSource(s) PROVE EvidenceInv'
  BY <1>0, <1>3, EvidenceOther DEF DisableSource, EvidenceInv
<1>4. CASE Tick
  BY <1>0, <1>4, EvidenceOther DEF Tick, EvidenceInv
<1>5. CASE CreateRun
  <2>1. ferun' \in RunRows /\ ferun'.st = "queued"
    BY <1>0, <1>5 DEF CreateRun, RunRows
  <2>. QED
    BY <1>0, <1>5, <2>1 DEF CreateRun, EvidenceInv
<1>6. CASE ExecuteRun
  <2>1. freezeManifestRecords(ferun.asof) \subseteq 1..Len(feobs)
    BY DEF freezeManifestRecords, Rows
  <2>2. /\ ferun' \in RunRows /\ ferun'.st = "executing" /\ ferun'.asof = ferun.asof
        /\ ferun'.manifest = freezeManifestRecords(ferun.asof)
    <3>1. PICK m \in SUBSET Nat : m = freezeManifestRecords(ferun.asof)
      BY <1>0, <2>1
    <3>2. ferun' = [ferun EXCEPT !.st = "executing", !.manifest = m]
      BY <1>6, <3>1 DEF ExecuteRun
    <3>. QED
      BY <1>0, <3>1, <3>2 DEF RunRows
  <2>3. ASSUME NEW i \in freezeManifestRecords(ferun.asof) PROVE NewestThen(i)'
    <3>1. /\ i \in 1..Len(feobs) /\ UsableFor(i, ferun.asof)
          /\ \A j \in 1..Len(feobs) : feobs[j].point = feobs[i].point /\ UsableFor(j, ferun.asof) => ~Older(i, j)
      BY DEF freezeManifestRecords, Rows, OfPoint
    <3>2. UNCHANGED <<feobs, fesrc>> /\ feknown' = Len(feobs)
      BY <1>6 DEF ExecuteRun
    <3>. QED
      BY <2>2, <3>1, <3>2 DEF NewestThen, UsableFor, Older
  <2>. QED
    BY <1>0, <1>6, <2>2, <2>3 DEF ExecuteRun, EvidenceInv
<1>7. ASSUME NEW inputs, RegisterCalculation(inputs) PROVE EvidenceInv'
  BY <1>0, <1>7, EvidenceOther DEF RegisterCalculation, EvidenceInv
<1>8. ASSUME ferun' = FailedRun, UNCHANGED <<feobs, fesrc, feclock, feknown>> PROVE EvidenceInv'
  <2>1. ferun' \in RunRows /\ ferun'.st = "failed"
    BY <1>8 DEF FailedRun, NoRunYet, RunRows
  <2>. QED
    BY <1>0, <1>8, <2>1 DEF EvidenceInv
<1>9. ASSUME NEW listed \in {r.listed : r \in {c \in Candidates : VerifyCandidate(c)}}, ferun.st = "executing",
             ferun' = [ferun EXCEPT !.st = "verified", !.cited = listed],
             UNCHANGED <<feobs, fesrc, feclock, feknown>>
      PROVE  EvidenceInv'
  <2>1. listed \subseteq ferun.manifest
    BY DEF VerifyCandidate, verifyEvidence, Candidates
  <2>2. /\ ferun' \in RunRows /\ ferun'.st = "verified" /\ ferun'.cited = listed
        /\ ferun'.asof = ferun.asof /\ ferun'.manifest = ferun.manifest
    BY <1>0, <1>9, <2>1 DEF RunRows
  <2>. QED
    BY <1>0, <1>9, <2>1, <2>2, EvidenceOther
<1>10. CASE CompleteRun
  <2>2. /\ ferun' \in RunRows /\ ferun'.st = "published" /\ ferun'.cited = ferun.cited
        /\ ferun'.asof = ferun.asof /\ ferun'.manifest = ferun.manifest
    BY <1>0, <1>10 DEF CompleteRun, RunRows
  <2>. QED
    BY <1>0, <1>10, <2>2, EvidenceOther DEF CompleteRun, EvidenceInv
<1>11. WorkerAnswers => EvidenceInv'
  BY <1>8, <1>9 DEF WorkerAnswers
<1>12. ExpireStaleRuns => EvidenceInv'
  BY <1>8 DEF ExpireStaleRuns
<1>. QED
  BY <1>1, <1>2, <1>3, <1>4, <1>5, <1>6, <1>7, <1>10, <1>11, <1>12 DEF EvidenceNext

LEMMA EvidenceInvImplies == ASSUME EvidenceInv PROVE CitesWhatWasKnown
<1> SUFFICES ASSUME ferun.st = "published", NEW i \in ferun.cited
             PROVE  /\ feobs[i].usable <= ferun.asof /\ feobs[i].scope # "others"
                    /\ \A j \in OfPoint(feobs[i].point) :
                          /\ j <= feknown /\ feobs[j].usable <= ferun.asof
                          /\ feobs[j].scope # "others" /\ feobs[j].src \in fesrc
                          => feobs[j].rev <= feobs[i].rev
  BY DEF CitesWhatWasKnown
<1>1. NewestThen(i)
  BY DEF EvidenceInv
<1>2. ASSUME NEW j \in OfPoint(feobs[i].point), j <= feknown, feobs[j].usable <= ferun.asof,
             feobs[j].scope # "others", feobs[j].src \in fesrc
      PROVE  feobs[j].rev <= feobs[i].rev
  <2>1. j \in 1..Len(feobs) /\ feobs[j].point = feobs[i].point
    BY DEF OfPoint, Rows
  <2>2. feobs[j] \in ObservationRows /\ j \in 1..feknown
    BY <1>2, <2>1 DEF EvidenceInv, EvidenceTyped
  <2>3. i \in 1..Len(feobs) /\ feobs[i] \in ObservationRows
    BY <1>1 DEF NewestThen, EvidenceInv, EvidenceTyped
  <2>4. UsableFor(j, ferun.asof)
    BY <1>2, <2>2 DEF UsableFor, ObservationRows
  <2>5. ~Older(i, j)
    BY <1>1, <2>1, <2>2, <2>4 DEF NewestThen
  <2>. QED
    BY <2>2, <2>3, <2>5 DEF Older, ObservationRows
<1>. QED
  BY <1>1, <1>2 DEF NewestThen

\* Whatever arrives or is switched off while a run executes, its report cites of
\* each point the newest revision that was known and usable at its as_of, and
\* nothing of another user (ingest.go, worker_client.go, verifier.go).
THEOREM CitesTheNewestThen == EvidenceSpec => []CitesWhatWasKnown
<1>1. EvidenceInit => EvidenceInv
  BY DEF EvidenceInit, EvidenceInv, EvidenceTyped, NoRunYet, RunRows
<1>2. EvidenceInv /\ [EvidenceNext]_feVars => EvidenceInv'
  BY EvidenceStep
<1>3. EvidenceInv => CitesWhatWasKnown
  BY EvidenceInvImplies
<1>. QED
  BY <1>1, <1>2, <1>3, PTL DEF EvidenceSpec
============================================================================
