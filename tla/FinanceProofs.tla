--------------------------- MODULE FinanceProofs ---------------------------
(***************************************************************************)
(* What a research report rests on, proved for all values of the constants: *)
(* the budget of the model proxy and its cache, the tools and the evidence *)
(* they fetch, the configuration that runs freeze, the gate of a report, and *)
(* the spans of documents it cites.                                        *)
(***************************************************************************)
EXTENDS ToolCalls, ModelCalls, FinanceConfig, ReportGate, DocumentSpans,
        TLAPS, FiniteSetTheorems, SequenceTheorems, WellFoundedInduction

----------------------------------------------------------------------------
(***************************************************************************)
(* ModelCalls: each request that was sent holds a unit of the budget, and a *)
(* replay is the answer to one.                                            *)
(***************************************************************************)

Row == [status : {"none"} \cup Counted, kind : {"none", "model"}, task : Tasks \cup {"none"}]
CacheEntry == [status : {"absent", "pending", "succeeded", "failed"}, body : Bodies]
Pcs == {"idle", "cache", "insert", "reserve", "forward", "answered", "noUsage", "failed",
        "reconcileFailed", "store", "done", "refused", "replayed", "crashed"}
Call == [pc : Pcs, id : RequestIds, task : Tasks, body : Bodies]

ProxyTyped ==
    /\ ledger \in [RequestIds -> Row]
    /\ cache \in [Tasks -> [RequestIds -> CacheEntry]]
    /\ client \in [Clients -> Call]
    /\ sent \in [Tasks -> SUBSET RequestIds]

\* The rows there are, and those of one task.
Paid      == {i \in RequestIds : ledger[i] # NoRow}
PaidBy(t) == {i \in Paid : ledger[i].task = t}

\* A row is a model call's and keeps its unit; the limits bound the rows.
Charged ==
    /\ \A i \in Paid : ledger[i].kind = "model" /\ ledger[i].status \in Counted
    /\ IsFiniteSet(Paid) /\ Cardinality(Paid) <= RunMax
    /\ \A t \in Tasks : Cardinality(PaidBy(t)) <= RoleMax

\* A call past its reservation has a row, and so has whatever was sent.
ProxyBacked ==
    /\ \A c \in Clients :
          client[c].pc \in {"forward", "answered", "noUsage", "failed", "reconcileFailed"}
              => client[c].id \in Paid
    /\ \A t \in Tasks : sent[t] \subseteq Paid

\* An answer, in hand, stored or replayed, is the answer to a request that was sent.
Answered ==
    /\ \A c \in Clients :
          client[c].pc \in {"answered", "noUsage", "store", "replayed"}
              => client[c].id \in sent[client[c].task]
    /\ \A t \in Tasks, i \in RequestIds : cache[t][i].status = "succeeded" => i \in sent[t]

ProxyInv == ProxyTyped /\ Charged /\ ProxyBacked /\ Answered

LEMMA ProxyInitInv == ProxyInit => ProxyInv
<1> SUFFICES ASSUME ProxyInit PROVE ProxyInv
  OBVIOUS
<1>1. AbsentEntry.body \in Bodies /\ IdleClient \in Call
  BY ProxyAssumption DEF AbsentEntry, IdleClient, Call, Pcs
<1>2. ProxyTyped
  BY <1>1 DEF ProxyInit, ProxyTyped, Row, NoRow, CacheEntry, AbsentEntry
<1>3. Paid = {} /\ \A t \in Tasks : PaidBy(t) = {}
  BY DEF ProxyInit, Paid, PaidBy
<1>4. Charged
  BY <1>3, FS_EmptySet, BudgetAssumption DEF Charged
<1>5. ProxyBacked /\ Answered
  BY DEF ProxyInit, ProxyBacked, Answered, AbsentEntry, IdleClient
<1>. QED
  BY <1>2, <1>4, <1>5 DEF ProxyInv

----------------------------------------------------------------------------

\* The units in use are the rows.
LEMMA UnitsAreRows ==
    ASSUME ProxyTyped, Charged
    PROVE  /\ Used(ledger, "model") = Cardinality(Paid)
           /\ \A t \in Tasks : UsedBy(ledger, "model", t) = Cardinality(PaidBy(t))
<1>1. \A i \in RequestIds : i \in Paid <=> ledger[i].kind = "model" /\ ledger[i].status \in Counted
  BY DEF Charged, Paid, NoRow
<1>2. DOMAIN ledger = RequestIds
  BY DEF ProxyTyped
<1>3. Paid = {i \in DOMAIN ledger : ledger[i].kind = "model" /\ ledger[i].status \in Counted}
  BY <1>1, <1>2 DEF Paid
<1>4. ASSUME NEW t \in Tasks
      PROVE  PaidBy(t) = {i \in DOMAIN ledger :
                /\ ledger[i].kind = "model" /\ ledger[i].task = t /\ ledger[i].status \in Counted}
  BY <1>3 DEF PaidBy
<1>. QED
  BY <1>3, <1>4 DEF Used, UsedBy

\* A reservation that the limits allow keeps them.
LEMMA ReserveCharges ==
    ASSUME ProxyTyped, Charged, NEW id \in RequestIds, NEW task \in Tasks,
           Reservable(ledger, id, "model", task),
           ledger' = Reserve(ledger, id, "model", task)
    PROVE  ledger' \in [RequestIds -> Row] /\ Charged' /\ Paid' = Paid \cup {id}
<1>1. CASE ledger[id] # NoRow
  BY <1>1 DEF Reserve, Paid, PaidBy, Charged, ProxyTyped
<1>2. CASE ledger[id] = NoRow
  <2> DEFINE row == [status |-> "reserved", kind |-> "model", task |-> task]
  <2>1. /\ ledger' = [ledger EXCEPT ![id] = row]
        /\ row \in Row /\ row # NoRow /\ row.status \in Counted
    BY <1>2 DEF Reserve, Row, NoRow, Counted
  <2>2. ledger' \in [RequestIds -> Row] /\ Paid' = Paid \cup {id} /\ id \notin Paid
    BY <1>2, <2>1 DEF Paid, ProxyTyped
  <2>3. PaidBy(task)' = PaidBy(task) \cup {id} /\ \A t \in Tasks \ {task} : PaidBy(t)' = PaidBy(t)
    <3>1. ledger'[id].task = task /\ \A i \in Paid : ledger'[i] = ledger[i]
      BY <2>1, <2>2 DEF Paid, ProxyTyped
    <3>. QED
      BY <2>2, <3>1 DEF PaidBy
  <2>4. Cardinality(Paid) < RunMax /\ Cardinality(PaidBy(task)) < RoleMax
    BY <1>2, UnitsAreRows DEF Reservable
  <2>5. /\ IsFiniteSet(Paid) /\ Cardinality(Paid) \in Nat
        /\ IsFiniteSet(PaidBy(task)) /\ Cardinality(PaidBy(task)) \in Nat
    BY FS_Subset, FS_CardinalityType DEF Charged, PaidBy
  <2>6. /\ IsFiniteSet(Paid \cup {id}) /\ Cardinality(Paid \cup {id}) = Cardinality(Paid) + 1
        /\ Cardinality(PaidBy(task) \cup {id}) = Cardinality(PaidBy(task)) + 1
    <3>1. id \notin PaidBy(task)
      BY <2>2 DEF PaidBy
    <3>. QED
      BY <2>2, <2>5, <3>1, FS_AddElement
  <2>7. \A i \in Paid' : ledger'[i].kind = "model" /\ ledger'[i].status \in Counted
    BY <2>1, <2>2 DEF Charged, Paid, ProxyTyped
  <2>8. /\ IsFiniteSet(Paid') /\ Cardinality(Paid') <= RunMax
        /\ Cardinality(PaidBy(task)') <= RoleMax
    BY <2>2, <2>3, <2>4, <2>5, <2>6, BudgetAssumption
  <2>9. \A t \in Tasks : Cardinality(PaidBy(t)') <= RoleMax
    BY <2>3, <2>8 DEF Charged
  <2>. QED
    BY <2>2, <2>7, <2>8, <2>9 DEF Charged
<1>. QED
  BY <1>1, <1>2

\* A settled row stays a row, and keeps its unit.
LEMMA ReconcileCharges ==
    ASSUME ProxyTyped, Charged, NEW id \in Paid, NEW unknown \in BOOLEAN,
           ledger' = Reconcile(ledger, id, unknown)
    PROVE  ledger' \in [RequestIds -> Row] /\ Charged' /\ Paid' = Paid
<1> DEFINE status == IF unknown THEN "unknown" ELSE "succeeded"
<1>1. /\ id \in RequestIds /\ ledger[id] \in Row /\ ledger[id] # NoRow
      /\ status \in Counted /\ status # "none"
  BY DEF Paid, ProxyTyped, Counted
<1>2. /\ ledger' = [ledger EXCEPT ![id].status = status]
      /\ ledger'[id] = [ledger[id] EXCEPT !.status = status]
      /\ \A i \in RequestIds : i # id => ledger'[i] = ledger[i]
  BY <1>1 DEF Reconcile, ProxyTyped
<1>3. ledger'[id] \in Row /\ ledger'[id] # NoRow /\ ledger'[id].status \in Counted
      /\ ledger'[id].kind = ledger[id].kind /\ ledger'[id].task = ledger[id].task
  BY <1>1, <1>2 DEF Row, NoRow
<1>4. ledger' \in [RequestIds -> Row] /\ Paid' = Paid
  BY <1>1, <1>2, <1>3 DEF Paid, ProxyTyped
<1>5. \A t \in Tasks : PaidBy(t)' = PaidBy(t)
  BY <1>2, <1>3, <1>4 DEF PaidBy, Paid
<1>6. \A i \in Paid' : ledger'[i].kind = "model" /\ ledger'[i].status \in Counted
  BY <1>2, <1>3, <1>4 DEF Charged, Paid
<1>. QED
  BY <1>4, <1>5, <1>6 DEF Charged

----------------------------------------------------------------------------

\* One call moves; what it has in hand is paid and sent as its place asks.
LEMMA CallMoves ==
    ASSUME ProxyInv, NEW c \in Clients,
           client' \in [Clients -> Call], \A d \in Clients \ {c} : client'[d] = client[d],
           client'[c].pc \in {"forward", "answered", "noUsage", "failed", "reconcileFailed"}
               => client'[c].id \in Paid',
           client'[c].pc \in {"answered", "noUsage", "store", "replayed"}
               => client'[c].id \in sent'[client'[c].task],
           ledger' \in [RequestIds -> Row], Charged', Paid \subseteq Paid',
           sent' \in [Tasks -> SUBSET RequestIds],
           \A t \in Tasks : sent[t] \subseteq sent'[t] /\ sent'[t] \subseteq Paid',
           cache' \in [Tasks -> [RequestIds -> CacheEntry]],
           \A t \in Tasks, i \in RequestIds : cache'[t][i].status = "succeeded" => i \in sent'[t]
    PROVE  ProxyInv'
<1>1. ProxyTyped'
  BY DEF ProxyTyped
<1>2. ASSUME NEW d \in Clients,
             client'[d].pc \in {"forward", "answered", "noUsage", "failed", "reconcileFailed"}
      PROVE  client'[d].id \in Paid'
  BY <1>2 DEF ProxyInv, ProxyBacked
<1>3. ASSUME NEW d \in Clients, client'[d].pc \in {"answered", "noUsage", "store", "replayed"}
      PROVE  client'[d].id \in sent'[client'[d].task]
  BY <1>3 DEF ProxyInv, ProxyTyped, Call, Answered
<1>. QED
  BY <1>1, <1>2, <1>3 DEF ProxyInv, ProxyBacked, Answered

LEMMA GoesTo ==
    ASSUME ProxyTyped, NEW c \in Clients, NEW pc \in Pcs, Goes(c, pc)
    PROVE  /\ client' \in [Clients -> Call] /\ \A d \in Clients \ {c} : client'[d] = client[d]
           /\ client'[c].pc = pc /\ client'[c].id = client[c].id /\ client'[c].task = client[c].task
<1>1. client[c] \in Call /\ client'[c] = [client[c] EXCEPT !.pc = pc]
  BY DEF Goes, ProxyTyped
<1>2. [client[c] EXCEPT !.pc = pc] \in Call
  BY <1>1 DEF Call
<1>. QED
  BY <1>1, <1>2 DEF Goes, ProxyTyped, Call

\* The entry of a call changes its status.
LEMMA EntryGets ==
    ASSUME ProxyTyped, NEW c \in Clients, NEW entry \in CacheEntry, SetEntry(c, entry)
    PROVE  /\ cache' \in [Tasks -> [RequestIds -> CacheEntry]]
           /\ \A t \in Tasks, i \in RequestIds :
                 \/ cache'[t][i] = cache[t][i]
                 \/ t = client[c].task /\ i = client[c].id /\ cache'[t][i] = entry
<1>1. client[c].id \in RequestIds /\ client[c].task \in Tasks
  BY DEF ProxyTyped, Call
<1>. QED
  BY <1>1 DEF SetEntry, ProxyTyped

LEMMA ProxyStepInv == ProxyInv /\ [ProxyNext]_mcVars => ProxyInv'
<1> SUFFICES ASSUME ProxyInv, [ProxyNext]_mcVars PROVE ProxyInv'
  OBVIOUS
<1>0. /\ ProxyTyped
      /\ \A t \in Tasks : sent[t] \subseteq Paid
      /\ \A t \in Tasks, i \in RequestIds : cache[t][i].status = "succeeded" => i \in sent[t]
      /\ \A c \in Clients : Entry(c) \in CacheEntry /\ client[c].id \in RequestIds /\ client[c].task \in Tasks
  BY DEF ProxyInv, ProxyTyped, ProxyBacked, Answered, Call, Entry
<1>1. ASSUME UNCHANGED ledger PROVE ledger' \in [RequestIds -> Row] /\ Charged' /\ Paid' = Paid
  BY <1>1 DEF ProxyInv, ProxyTyped, Charged, Paid, PaidBy
<1>a. ASSUME UNCHANGED sent
      PROVE  sent' \in [Tasks -> SUBSET RequestIds] /\ \A t \in Tasks : sent[t] \subseteq sent'[t]
  BY <1>a, <1>0 DEF ProxyTyped
<1>b. ASSUME UNCHANGED <<cache, sent>>
      PROVE  /\ cache' \in [Tasks -> [RequestIds -> CacheEntry]]
             /\ \A t \in Tasks, i \in RequestIds : cache'[t][i].status = "succeeded" => i \in sent'[t]
  BY <1>b, <1>0 DEF ProxyTyped
<1>c. ASSUME UNCHANGED sent, NEW c \in Clients, NEW entry \in CacheEntry, SetEntry(c, entry),
             entry.status = "succeeded" => client[c].id \in sent[client[c].task]
      PROVE  /\ cache' \in [Tasks -> [RequestIds -> CacheEntry]]
             /\ \A t \in Tasks, i \in RequestIds : cache'[t][i].status = "succeeded" => i \in sent'[t]
  BY <1>c, <1>0, EntryGets
<1>2. ASSUME NEW c \in Clients, Admitted(c) PROVE ProxyInv'
  <2>1. PICK i \in RequestIds, t \in Tasks, b \in Bodies :
           client' = [client EXCEPT ![c] = [pc |-> "cache", id |-> i, task |-> t, body |-> b]]
    BY <1>2 DEF Admitted
  <2>2. UNCHANGED <<ledger, cache, sent>>
    BY <1>2 DEF Admitted
  <2>3. /\ client' \in [Clients -> Call] /\ \A d \in Clients \ {c} : client'[d] = client[d]
        /\ client'[c].pc = "cache"
    BY <2>1, <1>0 DEF ProxyTyped, Call, Pcs
  <2>. QED
    BY <2>2, <2>3, <1>0, <1>1, <1>a, <1>b, CallMoves
<1>3. ASSUME NEW c \in Clients, ReadCache(c) PROVE ProxyInv'
  <2>1. PICK pc \in {"refused", "replayed", "insert"} : Goes(c, pc)
            /\ (pc = "replayed" => Entry(c).status = "succeeded")
    BY <1>3 DEF ReadCache
  <2>2. UNCHANGED <<ledger, cache, sent>>
    BY <1>3 DEF ReadCache
  <2>3. pc = "replayed" => client[c].id \in sent'[client[c].task]
    BY <2>1, <2>2, <1>0 DEF Entry
  <2>4. pc \in Pcs
    BY DEF Pcs
  <2>. QED
    BY <2>1, <2>2, <2>3, <2>4, <1>0, <1>1, <1>a, <1>b, GoesTo, CallMoves
<1>4. ASSUME NEW c \in Clients, InsertPending(c) PROVE ProxyInv'
  <2>1. UNCHANGED <<ledger, sent>> /\ Goes(c, "reserve") /\ "reserve" \in Pcs
    BY <1>4 DEF InsertPending, Pcs
  <2>2. /\ cache' \in [Tasks -> [RequestIds -> CacheEntry]]
        /\ \A t \in Tasks, i \in RequestIds : cache'[t][i].status = "succeeded" => i \in sent'[t]
    <3>1. CASE UNCHANGED cache
      BY <3>1, <2>1, <1>b
    <3>2. CASE SetEntry(c, [status |-> "pending", body |-> client[c].body])
      <4>1. [status |-> "pending", body |-> client[c].body] \in CacheEntry
        BY <1>0 DEF ProxyTyped, Call, CacheEntry
      <4>. QED
        BY <3>2, <4>1, <2>1, <1>c
    <3>. QED
      BY <3>1, <3>2, <1>4 DEF InsertPending
  <2>. QED
    BY <2>1, <2>2, <1>0, <1>1, <1>a, GoesTo, CallMoves
<1>d. ASSUME UNCHANGED sent, NEW c \in Clients, SetEntry(c, [Entry(c) EXCEPT !.status = "failed"])
      PROVE  /\ cache' \in [Tasks -> [RequestIds -> CacheEntry]]
             /\ \A t \in Tasks, i \in RequestIds : cache'[t][i].status = "succeeded" => i \in sent'[t]
  <2>1. [Entry(c) EXCEPT !.status = "failed"] \in CacheEntry
        /\ [Entry(c) EXCEPT !.status = "failed"].status = "failed"
    BY <1>0 DEF CacheEntry
  <2>. QED
    BY <1>d, <2>1, <1>c
<1>5. ASSUME NEW c \in Clients, ReserveCall(c) PROVE ProxyInv'
  <2>0. UNCHANGED sent /\ "forward" \in Pcs /\ "refused" \in Pcs
    BY <1>5 DEF ReserveCall, Pcs
  <2>1. CASE /\ Reservable(ledger, client[c].id, "model", client[c].task)
             /\ ledger' = Reserve(ledger, client[c].id, "model", client[c].task)
             /\ Goes(c, "forward") /\ UNCHANGED cache
    <3>1. ledger' \in [RequestIds -> Row] /\ Charged' /\ Paid' = Paid \cup {client[c].id}
      BY <1>0, <2>1, ReserveCharges DEF ProxyInv
    <3>. QED
      BY <2>0, <2>1, <3>1, <1>0, <1>a, <1>b, GoesTo, CallMoves
  <2>2. CASE /\ SetEntry(c, [Entry(c) EXCEPT !.status = "failed"])
             /\ Goes(c, "refused") /\ UNCHANGED ledger
    BY <2>0, <2>2, <1>0, <1>1, <1>a, <1>d, GoesTo, CallMoves
  <2>. QED
    BY <1>5, <2>1, <2>2 DEF ReserveCall
<1>6. ASSUME NEW c \in Clients, Unsendable(c) PROVE ProxyInv'
  <2>1. UNCHANGED <<ledger, cache, sent>> /\ Goes(c, "failed") /\ "failed" \in Pcs /\ client[c].id \in Paid
    BY <1>6 DEF Unsendable, At, ProxyInv, ProxyBacked, Pcs
  <2>. QED
    BY <2>1, <1>0, <1>1, <1>a, <1>b, GoesTo, CallMoves
<1>7. ASSUME NEW c \in Clients, Forward(c) PROVE ProxyInv'
  <2>1. PICK pc \in {"answered", "noUsage", "failed"} : Goes(c, pc)
    BY <1>7 DEF Forward
  <2>2. /\ client[c].pc = "forward" /\ UNCHANGED <<ledger, cache>>
        /\ sent' = [sent EXCEPT ![client[c].task] = @ \cup {client[c].id}]
    BY <1>7 DEF Forward, At
  <2>3. client[c].id \in Paid /\ pc \in Pcs
    BY <2>2 DEF ProxyInv, ProxyBacked, Pcs
  <2>4. /\ sent' \in [Tasks -> SUBSET RequestIds]
        /\ client[c].id \in sent'[client[c].task]
        /\ \A t \in Tasks : sent[t] \subseteq sent'[t] /\ sent'[t] \subseteq sent[t] \cup {client[c].id}
    BY <2>2, <1>0 DEF ProxyTyped
  <2>5. /\ cache' \in [Tasks -> [RequestIds -> CacheEntry]]
        /\ \A t \in Tasks, i \in RequestIds : cache'[t][i].status = "succeeded" => i \in sent'[t]
    BY <2>2, <2>4, <1>0 DEF ProxyTyped
  <2>6. \A t \in Tasks : sent'[t] \subseteq Paid'
    BY <2>2, <2>3, <2>4, <1>0, <1>1
  <2>. QED
    BY <2>1, <2>2, <2>3, <2>4, <2>5, <2>6, <1>0, <1>1, GoesTo, CallMoves
<1>8. ASSUME NEW c \in Clients, FailCache(c) PROVE ProxyInv'
  <2>1. /\ UNCHANGED <<ledger, sent>> /\ Goes(c, "reconcileFailed") /\ "reconcileFailed" \in Pcs
        /\ SetEntry(c, [Entry(c) EXCEPT !.status = "failed"]) /\ client[c].id \in Paid
    BY <1>8 DEF FailCache, At, ProxyInv, ProxyBacked, Pcs
  <2>. QED
    BY <2>1, <1>0, <1>1, <1>a, <1>d, GoesTo, CallMoves
<1>9. ASSUME NEW c \in Clients, ReconcileCall(c) PROVE ProxyInv'
  <2>1. /\ client[c].pc \in {"answered", "noUsage", "reconcileFailed"} /\ UNCHANGED <<cache, sent>>
        /\ ledger' = Reconcile(ledger, client[c].id, ~(client[c].pc = "answered"))
        /\ Goes(c, IF client[c].pc = "reconcileFailed" THEN "refused" ELSE "store")
    BY <1>9 DEF ReconcileCall, At
  <2>2. client[c].id \in Paid
    BY <2>1 DEF ProxyInv, ProxyBacked
  <2>3. ledger' \in [RequestIds -> Row] /\ Charged' /\ Paid' = Paid
    BY <2>1, <2>2, <1>0, ReconcileCharges DEF ProxyInv
  <2>4. client[c].pc # "reconcileFailed" => client[c].id \in sent'[client[c].task]
    BY <2>1 DEF ProxyInv, Answered
  <2>5. CASE client[c].pc = "reconcileFailed"
    <3>1. Goes(c, "refused") /\ "refused" \in Pcs
      BY <2>1, <2>5 DEF Pcs
    <3>. QED
      BY <3>1, <2>1, <2>3, <1>0, <1>a, <1>b, GoesTo, CallMoves
  <2>6. CASE client[c].pc # "reconcileFailed"
    <3>1. Goes(c, "store") /\ "store" \in Pcs
      BY <2>1, <2>6 DEF Pcs
    <3>. QED
      BY <3>1, <2>1, <2>3, <2>4, <2>6, <1>0, <1>a, <1>b, GoesTo, CallMoves
  <2>. QED
    BY <2>5, <2>6
<1>10. ASSUME NEW c \in Clients, StoreAnswer(c) PROVE ProxyInv'
  <2>1. /\ UNCHANGED <<ledger, sent>> /\ Goes(c, "done") /\ "done" \in Pcs
        /\ SetEntry(c, [Entry(c) EXCEPT !.status = "succeeded"])
        /\ client[c].id \in sent[client[c].task]
    BY <1>10 DEF StoreAnswer, At, ProxyInv, Answered, Pcs
  <2>2. [Entry(c) EXCEPT !.status = "succeeded"] \in CacheEntry
    BY <1>0 DEF CacheEntry
  <2>. QED
    BY <2>1, <2>2, <1>0, <1>1, <1>a, <1>c, GoesTo, CallMoves
<1>11. ASSUME NEW c \in Clients, CrashCall(c) PROVE ProxyInv'
  <2>1. UNCHANGED <<ledger, cache, sent>> /\ Goes(c, "crashed") /\ "crashed" \in Pcs
    BY <1>11 DEF CrashCall, Pcs
  <2>. QED
    BY <2>1, <1>0, <1>1, <1>a, <1>b, GoesTo, CallMoves
<1>12. CASE UNCHANGED <<ledger, cache, client, sent>>
  BY <1>12, <1>1 DEF ProxyInv, ProxyTyped, ProxyBacked, Answered
<1>13. (\E t \in Tasks : IssueTaskToken(t)) \/ CloseRun \/ RevokeTokens \/ UNCHANGED mcVars
          => UNCHANGED <<ledger, cache, client, sent>>
  BY DEF IssueTaskToken, CloseRun, RevokeTokens, mcVars
<1>. QED
  BY <1>2, <1>3, <1>4, <1>5, <1>6, <1>7, <1>8, <1>9, <1>10, <1>11, <1>12, <1>13 DEF ProxyNext, Complete

LEMMA ProxyInvariance == ProxySpec => []ProxyInv
  BY ProxyInitInv, ProxyStepInv, PTL DEF ProxySpec

\* Whatever calls of the two roles cross, fail, lose their usage or crash, each request that
\* reached the provider holds a unit, and they stay within the limits of run and task.
THEOREM SentIsPaid == ProxySpec => []SentWithinBudget
<1>1. ProxyInv => SentWithinBudget
  <2> SUFFICES ASSUME ProxyInv PROVE SentWithinBudget
    OBVIOUS
  <2> DEFINE all == UNION {sent[t] : t \in Tasks}
  <2>1. all \subseteq Paid
    BY DEF ProxyInv, ProxyBacked
  <2>2. IsFiniteSet(Paid) /\ Cardinality(Paid) \in Nat /\ Cardinality(Paid) <= RunMax
    BY FS_CardinalityType DEF ProxyInv, Charged
  <2>3. Cardinality(all) <= RunMax
    BY <2>1, <2>2, FS_Subset, FS_CardinalityType, BudgetAssumption
  <2>4. ASSUME NEW t \in Tasks PROVE Cardinality({i \in sent[t] : ledger[i].task = t}) <= RoleMax
    <3>1. {i \in sent[t] : ledger[i].task = t} \subseteq PaidBy(t) /\ PaidBy(t) \subseteq Paid
      BY DEF ProxyInv, ProxyBacked, PaidBy
    <3>2. IsFiniteSet(PaidBy(t)) /\ Cardinality(PaidBy(t)) \in Nat /\ Cardinality(PaidBy(t)) <= RoleMax
      BY <2>2, <3>1, FS_Subset, FS_CardinalityType DEF ProxyInv, Charged
    <3>. QED
      BY <3>1, <3>2, FS_Subset, FS_CardinalityType, BudgetAssumption
  <2>5. \A i \in all : ledger[i].status \in {"reserved", "succeeded", "unknown"}
    BY <2>1 DEF ProxyInv, Charged, Counted
  <2>. QED
    BY <2>3, <2>4, <2>5 DEF SentWithinBudget
<1>. QED
  BY <1>1, ProxyInvariance, PTL

\* A replay is the answer to a request that reached the provider.
THEOREM ReplaysAnswer == ProxySpec => []ReplaysAreAnswers
<1>1. ProxyInv => ReplaysAreAnswers
  BY DEF ProxyInv, Answered, ReplaysAreAnswers, At
<1>. QED
  BY <1>1, ProxyInvariance, PTL

----------------------------------------------------------------------------
(***************************************************************************)
(* ToolCalls: what a role cites was fetched for it, whatever the order in  *)
(* which grants are made, queries committed or rolled back, records        *)
(* registered and the run closed; and a closed run gets no new grant.      *)
(***************************************************************************)

\* What the theorems ask of the constants.
TasksHaveRuns == TaskRun \in [ToolTasks -> ToolRuns]

Statuses == {"absent", "granted", "revoked", "succeeded", "unknown"}

GrantRow == [status : Statuses, task : ToolTasks \cup {NoGrant.task}, executed : BOOLEAN,
             expired : BOOLEAN, hashed : BOOLEAN, reserved : BOOLEAN]

ToolTyped ==
    /\ grant \in [Grants -> GrantRow]
    /\ toolOpen \in [ToolRuns -> BOOLEAN]
    /\ query \in [Grants -> [pc : {"none", "consumed", "received"}, got : SUBSET Records]]
    /\ stored \in [Grants -> SUBSET Records]
    /\ evidence \in [ToolRuns -> SUBSET Records]
    /\ citable \in [ToolTasks -> SUBSET Records]
    /\ cited \in [ToolTasks -> SUBSET Records]
    /\ pending \in [Grants -> SUBSET Records]

Created(g) == grant[g].status # "absent"

\* Only a grant that exists is being queried or registered, and what is stored under it was
\* committed with its mark "executed".
ToolBacked ==
    \A g \in Grants :
        /\ Created(g) => grant[g].task \in ToolTasks
        /\ query[g].pc # "none" => Created(g)
        /\ pending[g] # {} => Created(g)
        /\ stored[g] # {} => Created(g) /\ grant[g].executed

Fetched(t, rec) == \E g \in Grants :
    Created(g) /\ grant[g].task = t /\ grant[g].executed /\ rec \in stored[g]

LinkedOfTask(t) == \A rec \in citable[t] :
    Fetched(t, rec) /\ rec \in evidence[TaskRun[t]] /\ rec \notin TooLate

Linked == \A t \in ToolTasks : LinkedOfTask(t) /\ cited[t] \subseteq citable[t]

ToolInv == ToolTyped /\ ToolBacked /\ Linked

LEMMA ToolInitInv == ToolInit => ToolInv
<1> SUFFICES ASSUME ToolInit PROVE ToolInv
  OBVIOUS
<1>1. ToolTyped
  BY DEF ToolInit, ToolTyped, GrantRow, Statuses, NoGrant, NoQuery
<1>2. ToolBacked /\ Linked
  BY DEF ToolInit, ToolBacked, Linked, LinkedOfTask, Created, NoGrant, NoQuery
<1>. QED
  BY <1>1, <1>2 DEF ToolInv

----------------------------------------------------------------------------

\* A grant, once made, keeps its task, its mark and its records; evidence and links only grow.
Keeps ==
    /\ \A g \in Grants : Created(g) =>
          /\ Created(g)' /\ grant'[g].task = grant[g].task
          /\ grant[g].executed => grant'[g].executed
          /\ stored[g] \subseteq stored'[g]
    /\ \A r \in ToolRuns : evidence[r] \subseteq evidence'[r]

\* A step that keeps the grants and links no record keeps the links.
LEMMA LinksStay ==
    ASSUME TasksHaveRuns, ToolInv, Keeps, citable' = citable, \A t \in ToolTasks : cited'[t] \subseteq citable[t]
    PROVE  Linked'
<1>1. ASSUME NEW t \in ToolTasks, NEW rec \in citable[t]
      PROVE  Fetched(t, rec)' /\ rec \in evidence'[TaskRun[t]] /\ rec \notin TooLate
  <2>1. Fetched(t, rec) /\ rec \in evidence[TaskRun[t]] /\ rec \notin TooLate
    BY DEF ToolInv, Linked, LinkedOfTask
  <2>2. PICK g \in Grants : Created(g) /\ grant[g].task = t /\ grant[g].executed /\ rec \in stored[g]
    BY <2>1 DEF Fetched
  <2>3. Created(g)' /\ grant'[g].task = t /\ grant'[g].executed /\ rec \in stored'[g]
    BY <2>2 DEF Keeps
  <2>4. TaskRun[t] \in ToolRuns
    BY DEF TasksHaveRuns
  <2>. QED
    BY <2>1, <2>3, <2>4 DEF Fetched, Keeps
<1>. QED
  BY <1>1 DEF Linked, LinkedOfTask

\* CreateGrant, GrantExpires, QueryCommit, CompleteGrant, CalculateMetric: one grant changes.
LEMMA GrantStep ==
    ASSUME TasksHaveRuns, ToolInv, NEW g \in Grants, NEW now \in GrantRow, NEW more \in SUBSET Records,
           grant' = [grant EXCEPT ![g] = now],
           stored' = [stored EXCEPT ![g] = @ \cup more],
           query' \in [Grants -> [pc : {"none", "consumed", "received"}, got : SUBSET Records]],
           \A h \in Grants : query'[h].pc # "none" => query[h].pc # "none",
           Created(g) => now.status # "absent" /\ now.task = grant[g].task
                         /\ (grant[g].executed => now.executed),
           now.status # "absent" => now.task \in ToolTasks,
           more # {} => now.status # "absent" /\ now.executed,
           UNCHANGED <<toolOpen, evidence, citable, cited, pending>>
    PROVE  ToolInv'
<1>1. /\ grant'[g] = now /\ stored'[g] = stored[g] \cup more
      /\ \A h \in Grants : h # g => grant'[h] = grant[h] /\ stored'[h] = stored[h]
  BY DEF ToolInv, ToolTyped
<1>2. ToolTyped'
  BY DEF ToolInv, ToolTyped
<1>3. ToolBacked'
  <2>1. ASSUME NEW h \in Grants
        PROVE  /\ Created(h)' => grant'[h].task \in ToolTasks
               /\ query'[h].pc # "none" => Created(h)'
               /\ pending'[h] # {} => Created(h)'
               /\ stored'[h] # {} => Created(h)' /\ grant'[h].executed
    <3>1. CASE h = g
      BY <1>1, <3>1 DEF ToolInv, ToolBacked, Created
    <3>2. CASE h # g
      BY <1>1, <3>2 DEF ToolInv, ToolBacked, Created
    <3>. QED
      BY <3>1, <3>2
  <2>. QED
    BY <2>1 DEF ToolBacked
<1>4. Keeps
  BY <1>1 DEF Keeps, Created
<1>5. Linked'
  BY <1>4, LinksStay DEF ToolInv, Linked
<1>. QED
  BY <1>2, <1>3, <1>5 DEF ToolInv

\* The steps that change neither grants nor records.
LEMMA OtherStep ==
    ASSUME TasksHaveRuns, ToolInv, UNCHANGED <<grant, stored>>, ToolTyped',
           \A h \in Grants : query'[h].pc # "none" => query[h].pc # "none" \/ Created(h),
           \A h \in Grants : pending'[h] # {} => pending[h] # {} \/ Created(h),
           UNCHANGED <<evidence, citable>>, \A t \in ToolTasks : cited'[t] \subseteq citable[t]
    PROVE  ToolInv'
<1>1. ToolBacked'
  BY DEF ToolInv, ToolBacked, Created
<1>2. Keeps
  BY DEF Keeps, Created
<1>3. Linked'
  BY <1>2, LinksStay
<1>. QED
  BY <1>1, <1>3 DEF ToolInv

LEMMA CreateGrantStep ==
    ASSUME TasksHaveRuns, ToolInv, NEW g \in Grants, NEW t \in ToolTasks, CreateGrant(g, t)
    PROVE  ToolInv'
<1>1. grant[g] \in GrantRow /\ grant \in [Grants -> GrantRow] /\ ~Created(g)
  BY DEF CreateGrant, Created, ToolInv, ToolTyped
<1>2. PICK now \in GrantRow : /\ grant' = [grant EXCEPT ![g] = now]
                              /\ now.status # "absent" => now.task \in ToolTasks
  <2>1. [grant[g] EXCEPT !.reserved = TRUE] \in GrantRow
        /\ [grant[g] EXCEPT !.reserved = TRUE].status = "absent"
    BY <1>1 DEF GrantRow, Created
  <2>2. [status |-> "granted", task |-> t, executed |-> FALSE,
         expired |-> FALSE, hashed |-> FALSE, reserved |-> TRUE] \in GrantRow
    BY DEF GrantRow, Statuses
  <2>. QED
    BY <2>1, <2>2 DEF CreateGrant
<1>3. stored' = [stored EXCEPT ![g] = @ \cup {}]
  BY DEF CreateGrant, ToolInv, ToolTyped
<1>4. /\ query' = query /\ UNCHANGED <<toolOpen, evidence, citable, cited, pending>>
      /\ query' \in [Grants -> [pc : {"none", "consumed", "received"}, got : SUBSET Records]]
  BY DEF CreateGrant, ToolInv, ToolTyped
<1> DEFINE more == {}
<1>5. more \in SUBSET Records /\ more = {} /\ stored' = [stored EXCEPT ![g] = @ \cup more]
  BY <1>3
<1>. HIDE DEF more
<1>. QED
  BY <1>1, <1>2, <1>4, <1>5, GrantStep

LEMMA ExpireCompleteCalculate ==
    ASSUME TasksHaveRuns, ToolInv, NEW g \in Grants, GrantExpires(g) \/ CompleteGrant(g) \/ CalculateMetric(g)
    PROVE  ToolInv'
<1>1. grant[g] \in GrantRow /\ grant \in [Grants -> GrantRow] /\ Created(g) /\ grant[g].task \in ToolTasks
  BY DEF GrantExpires, CompleteGrant, CalculateMetric, Consumable, Created, ToolInv, ToolTyped, ToolBacked
<1>2. PICK now \in GrantRow :
         /\ grant' = [grant EXCEPT ![g] = now] /\ now.status # "absent" /\ now.task = grant[g].task
         /\ grant[g].executed => now.executed
  <2>1. CASE GrantExpires(g)
    <3> DEFINE now == [grant[g] EXCEPT !.expired = TRUE]
    <3>1. grant' = [grant EXCEPT ![g] = now]
      BY <2>1, <1>1 DEF GrantExpires
    <3>2. now \in GrantRow /\ now.status # "absent" /\ now.task = grant[g].task /\ (grant[g].executed => now.executed)
      BY <1>1 DEF GrantRow, Created
    <3>. QED
      BY <3>1, <3>2
  <2>2. CASE CompleteGrant(g)
    <3>1. PICK status \in {"succeeded", "unknown"} :
             grant' = [grant EXCEPT ![g].status = status, ![g].hashed = status = "succeeded"]
      BY <2>2 DEF CompleteGrant
    <3> DEFINE done == (status = "succeeded")
               now == [[grant[g] EXCEPT !.status = status] EXCEPT !.hashed = done]
    <3>2. done \in BOOLEAN /\ status \in Statuses /\ status # "absent"
      BY DEF Statuses
    <3>. HIDE DEF done
    <3>3. grant' = [grant EXCEPT ![g] = now]
      BY <1>1, <3>1 DEF done
    <3>4. now \in GrantRow
      BY <1>1, <3>2 DEF GrantRow
    <3>5. now.status = status /\ now.task = grant[g].task /\ (grant[g].executed => now.executed)
      BY <1>1 DEF GrantRow
    <3>. QED
      BY <3>2, <3>3, <3>4, <3>5
  <2>3. CASE CalculateMetric(g)
    <3> DEFINE now == [grant[g] EXCEPT !.executed = TRUE]
    <3>1. grant' = [grant EXCEPT ![g] = now]
      BY <2>3, <1>1 DEF CalculateMetric
    <3>2. now \in GrantRow /\ now.status # "absent" /\ now.task = grant[g].task /\ (grant[g].executed => now.executed)
      BY <1>1 DEF GrantRow, Created
    <3>. QED
      BY <3>1, <3>2
  <2>. QED
    BY <2>1, <2>2, <2>3
<1>3. stored' = [stored EXCEPT ![g] = @ \cup {}]
  BY DEF GrantExpires, CompleteGrant, CalculateMetric, ToolInv, ToolTyped
<1>4. /\ query' = query /\ UNCHANGED <<toolOpen, evidence, citable, cited, pending>>
      /\ query' \in [Grants -> [pc : {"none", "consumed", "received"}, got : SUBSET Records]]
  BY DEF GrantExpires, CompleteGrant, CalculateMetric, ToolInv, ToolTyped
<1> DEFINE more == {}
<1>5. more \in SUBSET Records /\ more = {} /\ stored' = [stored EXCEPT ![g] = @ \cup more]
  BY <1>3
<1>. HIDE DEF more
<1>. QED
  BY <1>1, <1>2, <1>4, <1>5, GrantStep

LEMMA QueryCommitStep ==
    ASSUME TasksHaveRuns, ToolInv, NEW g \in Grants, QueryCommit(g)
    PROVE  ToolInv'
<1>1. /\ grant[g] \in GrantRow /\ grant \in [Grants -> GrantRow] /\ Created(g) /\ grant[g].task \in ToolTasks
      /\ query[g] \in [pc : {"none", "consumed", "received"}, got : SUBSET Records]
  BY DEF QueryCommit, Created, ToolInv, ToolTyped, ToolBacked
<1> DEFINE now == [[grant[g] EXCEPT !.executed = TRUE] EXCEPT !.status = "succeeded"]
           more == query[g].got
<1>2. grant' = [grant EXCEPT ![g] = now] /\ stored' = [stored EXCEPT ![g] = @ \cup more]
  BY <1>1 DEF QueryCommit
<1>3. now \in GrantRow /\ now.status = "succeeded" /\ now.task = grant[g].task /\ now.executed
  BY <1>1 DEF GrantRow, Statuses
<1>4. more \in SUBSET Records
  BY <1>1
<1>5. query' = [query EXCEPT ![g] = [pc |-> "none", got |-> {}]]
  BY DEF QueryCommit, NoQuery
<1>6. /\ query' \in [Grants -> [pc : {"none", "consumed", "received"}, got : SUBSET Records]]
      /\ \A h \in Grants : query'[h].pc # "none" => query[h].pc # "none"
  BY <1>1, <1>5 DEF ToolInv, ToolTyped
<1>7. UNCHANGED <<toolOpen, evidence, citable, cited, pending>>
  BY DEF QueryCommit
<1>. HIDE DEF now, more
<1>. QED
  BY <1>1, <1>2, <1>3, <1>4, <1>6, <1>7, GrantStep

\* revokeTokens takes back several grants at once; what they fetched stays theirs.
LEMMA RevokeStep ==
    ASSUME TasksHaveRuns, ToolInv, NEW r \in ToolRuns, RevokeGrants(r)
    PROVE  ToolInv'
<1>1. ASSUME NEW h \in Grants
      PROVE  /\ grant'[h] \in GrantRow /\ (Created(h)' <=> Created(h))
             /\ grant'[h].task = grant[h].task /\ grant'[h].executed = grant[h].executed
  <2>1. grant[h] \in GrantRow
    BY DEF ToolInv, ToolTyped
  <2>2. CASE Revocable(h, r)
    <3>1. grant'[h] = [grant[h] EXCEPT !.status = "revoked"]
      BY <2>2 DEF RevokeGrants
    <3>. QED
      BY <2>1, <2>2, <3>1 DEF GrantRow, Statuses, Revocable, Created
  <2>3. CASE ~Revocable(h, r)
    BY <2>1, <2>3 DEF RevokeGrants, Created
  <2>. QED
    BY <2>2, <2>3
<1>2. ToolTyped'
  BY <1>1 DEF RevokeGrants, ToolInv, ToolTyped
<1>3. ToolBacked'
  BY <1>1 DEF RevokeGrants, ToolInv, ToolBacked
<1>4. Keeps
  BY <1>1 DEF Keeps, RevokeGrants
<1>5. Linked'
  BY <1>4, LinksStay DEF RevokeGrants, ToolInv, Linked
<1>. QED
  BY <1>2, <1>3, <1>5 DEF ToolInv

\* Register links a record only if a query of this grant had stored it.
LEMMA RegisterInsertStep ==
    ASSUME TasksHaveRuns, ToolInv, NEW g \in Grants, RegisterInsert(g)
    PROVE  ToolInv'
<1>1. Created(g) /\ grant[g].task \in ToolTasks /\ TaskRun[grant[g].task] \in ToolRuns
      /\ pending[g] \in SUBSET Records
  BY DEF RegisterInsert, ToolInv, ToolBacked, ToolTyped, TasksHaveRuns
<1>2. ToolTyped'
  BY <1>1 DEF RegisterInsert, ToolInv, ToolTyped
<1>3. ToolBacked'
  <2>1. \A h \in Grants : pending'[h] # {} => pending[h] # {}
    BY DEF RegisterInsert, ToolInv, ToolTyped
  <2>. QED
    BY <2>1 DEF RegisterInsert, ToolInv, ToolBacked, Created
<1>4. Keeps
  BY <1>1 DEF RegisterInsert, ToolInv, ToolTyped, Keeps, Created, RunOf
<1>5. Linked'
  <2>1. CASE citable' = citable
    BY <1>4, <2>1, LinksStay DEF RegisterInsert, ToolInv, Linked
  <2>2. CASE citable' # citable
    <3>1. /\ \A rec \in pending[g] : rec \in stored[g] /\ rec \notin TooLate
          /\ evidence' = [evidence EXCEPT ![TaskRun[grant[g].task]] = @ \cup pending[g]]
          /\ citable' = [citable EXCEPT ![grant[g].task] = @ \cup pending[g]]
          /\ UNCHANGED <<grant, stored, cited>>
      BY <2>2 DEF RegisterInsert, Trusted, Fits, RunOf
    <3>2. ASSUME NEW t \in ToolTasks, NEW rec \in citable'[t]
          PROVE  Fetched(t, rec)' /\ rec \in evidence'[TaskRun[t]] /\ rec \notin TooLate
      <4>1. CASE rec \in citable[t]
        <5>1. Fetched(t, rec) /\ rec \in evidence[TaskRun[t]] /\ rec \notin TooLate
          BY <4>1 DEF ToolInv, Linked, LinkedOfTask
        <5>. QED
          BY <1>4, <3>1, <5>1 DEF Fetched, Created, Keeps, TasksHaveRuns
      <4>2. CASE rec \notin citable[t]
        <5>1. t = grant[g].task /\ rec \in pending[g]
          BY <1>1, <3>1, <3>2, <4>2 DEF ToolInv, ToolTyped
        <5>2. rec \in stored[g] /\ rec \notin TooLate /\ grant[g].executed
          BY <3>1, <5>1 DEF ToolInv, ToolBacked
        <5>3. rec \in evidence'[TaskRun[t]]
          BY <1>1, <3>1, <5>1 DEF ToolInv, ToolTyped
        <5>. QED
          BY <1>1, <3>1, <5>1, <5>2, <5>3 DEF Fetched, Created
      <4>. QED
        BY <4>1, <4>2
    <3>3. \A t \in ToolTasks : cited'[t] \subseteq citable'[t]
      BY <1>1, <3>1 DEF ToolInv, Linked, ToolTyped
    <3>. QED
      BY <3>2, <3>3 DEF Linked, LinkedOfTask
  <2>. QED
    BY <2>1, <2>2
<1>. QED
  BY <1>2, <1>3, <1>5 DEF ToolInv

LEMMA ToolStepInv ==
    ASSUME TasksHaveRuns, ToolInv, [ToolNext]_toVars
    PROVE  ToolInv'
<1>1. ASSUME NEW g \in Grants, NEW t \in ToolTasks, CreateGrant(g, t) PROVE ToolInv'
  BY <1>1, CreateGrantStep
<1>2. ASSUME NEW g \in Grants, GrantExpires(g) \/ CompleteGrant(g) \/ CalculateMetric(g) PROVE ToolInv'
  BY <1>2, ExpireCompleteCalculate
<1>3. ASSUME NEW g \in Grants, QueryCommit(g) PROVE ToolInv'
  BY <1>3, QueryCommitStep
<1>4. ASSUME NEW g \in Grants, QueryStart(g) \/ QuerySend(g) \/ QueryRollback(g) PROVE ToolInv'
  <2>1. Created(g)
    BY <1>4 DEF QueryStart, QuerySend, QueryRollback, Consumable, Created, ToolInv, ToolBacked
  <2>2. /\ query' \in [Grants -> [pc : {"none", "consumed", "received"}, got : SUBSET Records]]
        /\ \A h \in Grants : h # g => query'[h] = query[h]
        /\ UNCHANGED <<grant, toolOpen, stored, evidence, citable, cited, pending>>
    BY <1>4 DEF QueryStart, QuerySend, QueryRollback, NoQuery, ToolInv, ToolTyped
  <2>3. ToolTyped'
    BY <2>2 DEF ToolInv, ToolTyped
  <2>4. \A t \in ToolTasks : cited'[t] \subseteq citable[t]
    BY <2>2 DEF ToolInv, Linked
  <2>. QED
    BY <2>1, <2>2, <2>3, <2>4, OtherStep
<1>5. ASSUME NEW g \in Grants, RegisterRead(g) PROVE ToolInv'
  <2>1. Created(g) /\ UNCHANGED <<grant, toolOpen, query, stored, evidence, citable, cited>>
    BY <1>5 DEF RegisterRead, Created
  <2>2. /\ pending' \in [Grants -> SUBSET Records]
        /\ \A h \in Grants : h # g => pending'[h] = pending[h]
    BY <1>5 DEF RegisterRead, ToolInv, ToolTyped
  <2>3. ToolTyped'
    BY <2>1, <2>2 DEF ToolInv, ToolTyped
  <2>4. \A t \in ToolTasks : cited'[t] \subseteq citable[t]
    BY <2>1 DEF ToolInv, Linked
  <2>. QED
    BY <2>1, <2>2, <2>3, <2>4, OtherStep
<1>6. ASSUME NEW g \in Grants, RegisterInsert(g) PROVE ToolInv'
  BY <1>6, RegisterInsertStep
<1>7. ASSUME NEW r \in ToolRuns, CloseToolRun(r) PROVE ToolInv'
  <2>1. ToolTyped' /\ UNCHANGED <<grant, stored, query, pending, evidence, citable, cited>>
    BY <1>7 DEF CloseToolRun, ToolInv, ToolTyped
  <2>. QED
    BY <2>1, OtherStep DEF ToolInv, Linked
<1>8. ASSUME NEW r \in ToolRuns, RevokeGrants(r) PROVE ToolInv'
  BY <1>8, RevokeStep
<1>9. ASSUME NEW t \in ToolTasks, ValidateRole(t) PROVE ToolInv'
  <2>1. /\ ToolTyped' /\ UNCHANGED <<grant, stored, query, pending, evidence, citable>>
        /\ \A u \in ToolTasks : cited'[u] \subseteq citable[u]
    BY <1>9 DEF ValidateRole, Accepts, ToolInv, ToolTyped, Linked
  <2>. QED
    BY <2>1, OtherStep
<1>10. CASE UNCHANGED toVars
  <2>1. ToolTyped' /\ UNCHANGED <<grant, stored, query, pending, evidence, citable, cited>>
    BY <1>10 DEF toVars, ToolInv, ToolTyped
  <2>. QED
    BY <2>1, OtherStep DEF ToolInv, Linked
<1>. QED
  BY <1>1, <1>2, <1>3, <1>4, <1>5, <1>6, <1>7, <1>8, <1>9, <1>10 DEF ToolNext

LEMMA ToolInvariance == ASSUME TasksHaveRuns PROVE ToolSpec => []ToolInv
<1>1. ToolInit => ToolInv
  BY ToolInitInv
<1>2. ToolInv /\ [ToolNext]_toVars => ToolInv'
  BY ToolStepInv
<1>. QED
  BY <1>1, <1>2, PTL DEF ToolSpec

\* What a role cites was fetched by a committed query of a grant of that very task, is evidence
\* of its run, and was public at the as_of of the run.
THEOREM Fetching == ASSUME TasksHaveRuns PROVE ToolSpec => []CitedWasFetched
<1>1. ToolInv => CitedWasFetched
  BY DEF ToolInv, Linked, LinkedOfTask, Fetched, CitedWasFetched
<1>. QED
  BY <1>1, ToolInvariance, PTL

\* CreateGrant makes no grant for a run that is closed: the only step that makes one finds the
\* run open, under the lock that orders it with the closing.
THEOREM Closing == ASSUME TasksHaveRuns PROVE ToolSpec => NoGrantAfterClose
<1>1. ASSUME ToolInv, [ToolNext]_toVars, NEW g \in Grants, grant[g].status = "absent", grant'[g].status # "absent"
      PROVE  toolOpen[RunOf(g)']
  <2>1. ~Created(g) /\ query[g].pc = "none"
    BY <1>1 DEF Created, ToolInv, ToolBacked
  <2>2. PICK t \in ToolTasks : CreateGrant(g, t)
    <3>1. \A h \in Grants, t \in ToolTasks : h # g /\ CreateGrant(h, t) => grant'[g] = grant[g]
      BY <1>1 DEF CreateGrant, ToolInv, ToolTyped
    <3>2. \A h \in Grants : h # g /\ (GrantExpires(h) \/ QueryCommit(h) \/ CompleteGrant(h) \/ CalculateMetric(h))
             => grant'[g] = grant[g]
      BY <1>1 DEF GrantExpires, QueryCommit, CompleteGrant, CalculateMetric, ToolInv, ToolTyped
    <3>3. ~GrantExpires(g) /\ ~QueryCommit(g) /\ ~CompleteGrant(g) /\ ~CalculateMetric(g)
      BY <2>1 DEF GrantExpires, QueryCommit, CompleteGrant, CalculateMetric, Consumable, Created
    <3>4. \A r \in ToolRuns : RevokeGrants(r) => grant'[g] = grant[g]
      BY <1>1 DEF RevokeGrants, Revocable
    <3>. QED
      BY <1>1, <3>1, <3>2, <3>3, <3>4
         DEF ToolNext, toVars, QueryStart, QuerySend, QueryRollback, RegisterRead, RegisterInsert,
             CloseToolRun, ValidateRole
  <2>3. /\ toolOpen[TaskRun[t]]
        /\ grant' = [grant EXCEPT ![g] = [status |-> "granted", task |-> t, executed |-> FALSE,
                                          expired |-> FALSE, hashed |-> FALSE, reserved |-> TRUE]]
    <3>1. [grant[g] EXCEPT !.reserved = TRUE].status = "absent"
      BY <1>1 DEF ToolInv, ToolTyped, GrantRow
    <3>. QED
      BY <1>1, <2>2, <3>1 DEF CreateGrant, MayGrant, ToolInv, ToolTyped
  <2>4. grant'[g].task = t
    BY <2>3, <1>1 DEF ToolInv, ToolTyped
  <2>. QED
    BY <2>3, <2>4 DEF RunOf
<1>2. ToolInv /\ [ToolNext]_toVars =>
         [\A g \in Grants : grant[g].status = "absent" /\ grant'[g].status # "absent" => toolOpen[RunOf(g)']]_toVars
  BY <1>1
<1>. QED
  BY <1>2, ToolInvariance, PTL DEF ToolSpec, NoGrantAfterClose

----------------------------------------------------------------------------
(***************************************************************************)
(* FinanceConfig: the version that is served has passed its test.          *)
(***************************************************************************)

\* A call is a record of the three parts; what limits an admin may ask for does not matter here.
IsCall(call) == call \in [pc : {call.pc}, config : Configs, limits : {call.limits}]

ConfigTyped ==
    /\ config \in [Configs -> [saved : BOOLEAN, test : {"untested", "passed", "stale"}, at : Nat]]
    /\ stamp \in Nat
    /\ admin = [a \in Calls |-> admin[a]] /\ \A a \in Calls : IsCall(admin[a])

\* What counts as passed now, is about to be activated or was activated has passed once.
Tested ==
    /\ \A c \in Configs : config[c].test = "passed" \/ config[c].at > 0 => c \in everPassed
    /\ \A a \in Calls : admin[a].pc \in {"deactivate", "activate"} => admin[a].config \in everPassed

ConfigInv == ConfigTyped /\ Tested

LEMMA ConfigInitInv == ConfigInit => ConfigInv
<1> SUFFICES ASSUME ConfigInit PROVE ConfigInv
  OBVIOUS
<1>1. IsCall(Idle) /\ Idle.pc = "idle"
  BY ConfigAssumption DEF IsCall, Idle
<1>2. admin = [a \in Calls |-> Idle]
  BY DEF ConfigInit
<1>3. ConfigTyped
  <2>1. config \in [Configs -> [saved : BOOLEAN, test : {"untested", "passed", "stale"}, at : Nat]] /\ stamp \in Nat
    BY DEF ConfigInit
  <2>. QED
    BY <1>1, <1>2, <2>1 DEF ConfigTyped
<1>4. Tested
  BY <1>1, <1>2 DEF ConfigInit, Tested
<1>. QED
  BY <1>3, <1>4 DEF ConfigInv

\* Whatever a call does next, it stays a call.
LEMMA CallGoes ==
    ASSUME ConfigTyped, NEW a \in Calls, NEW now, IsCall(now), admin' = [admin EXCEPT ![a] = now]
    PROVE  /\ admin' = [b \in Calls |-> admin'[b]] /\ \A b \in Calls : IsCall(admin'[b])
           /\ admin'[a] = now /\ \A b \in Calls \ {a} : admin'[b] = admin[b]
  BY DEF ConfigTyped

LEMMA ConfigStepInv == ConfigInv /\ [ConfigNext]_cfVars => ConfigInv'
<1> SUFFICES ASSUME ConfigInv, [ConfigNext]_cfVars PROVE ConfigInv'
  OBVIOUS
<1>0. ConfigTyped /\ IsCall(Idle) /\ Idle.pc = "idle"
  BY ConfigAssumption DEF ConfigInv, IsCall, Idle
<1>1. ASSUME NEW c \in Configs, SaveModel(c) PROVE ConfigInv'
  BY <1>1 DEF SaveModel, ConfigInv, ConfigTyped, Tested
<1>2. ASSUME NEW c \in Configs, MarkTested(c) PROVE ConfigInv'
  <2>1. PICK test \in {"passed", "stale"} :
          /\ config' = [config EXCEPT ![c].test = test]
          /\ everPassed' = IF test = "passed" THEN everPassed \cup {c} ELSE everPassed
    BY <1>2 DEF MarkTested
  <2>2. UNCHANGED <<admin, stamp>>
    BY <1>2 DEF MarkTested
  <2>. QED
    BY <2>1, <2>2 DEF ConfigInv, ConfigTyped, Tested
<1>3. ASSUME NEW a \in Calls, NEW c \in Configs, ActivateCheck(a, c) PROVE ConfigInv'
  <2> DEFINE now == [Idle EXCEPT !.pc = "deactivate", !.config = c]
  <2>1. IsCall(now) /\ now.config = c
    BY <1>0 DEF IsCall
  <2>2. /\ admin' = [admin EXCEPT ![a] = now] /\ c \in everPassed
        /\ UNCHANGED <<config, everPassed, stamp>>
    BY <1>3 DEF ActivateCheck, Activatable, ConfigInv, Tested
  <2>. QED
    BY <2>1, <2>2, <1>0, CallGoes DEF ConfigInv, ConfigTyped, Tested
<1>4. ASSUME NEW a \in Calls, ActivateClear(a) PROVE ConfigInv'
  <2> DEFINE now == [admin[a] EXCEPT !.pc = "activate"]
  <2>1. IsCall(now) /\ now.config = admin[a].config
    BY <1>0 DEF ConfigTyped, IsCall
  <2>2. /\ admin' = [admin EXCEPT ![a] = now] /\ admin[a].config \in everPassed
        /\ config' = [c \in Configs |-> [config[c] EXCEPT !.at = 0]]
        /\ UNCHANGED <<everPassed, stamp>>
    BY <1>4 DEF ActivateClear, ConfigInv, Tested
  <2>3. /\ config' \in [Configs -> [saved : BOOLEAN, test : {"untested", "passed", "stale"}, at : Nat]]
        /\ \A c \in Configs : config'[c].test = config[c].test /\ config'[c].at = 0
    BY <2>2, <1>0 DEF ConfigTyped
  <2>. QED
    BY <2>1, <2>2, <2>3, <1>0, CallGoes DEF ConfigInv, ConfigTyped, Tested
<1>5. ASSUME NEW a \in Calls, ActivateSet(a) PROVE ConfigInv'
  <2>1. /\ admin[a].config \in Configs /\ admin[a].config \in everPassed
        /\ config' = [config EXCEPT ![admin[a].config].at = stamp + 1] /\ stamp' = stamp + 1
        /\ admin' = [admin EXCEPT ![a] = Idle] /\ UNCHANGED everPassed
    BY <1>5 DEF ActivateSet, ConfigInv, ConfigTyped, IsCall, Tested
  <2>2. /\ config' \in [Configs -> [saved : BOOLEAN, test : {"untested", "passed", "stale"}, at : Nat]]
        /\ \A c \in Configs : /\ config'[c].test = config[c].test
                              /\ config'[c].at > 0 => config[c].at > 0 \/ c = admin[a].config
    BY <2>1, <1>0 DEF ConfigTyped
  <2>. QED
    BY <2>1, <2>2, <1>0, CallGoes DEF ConfigInv, ConfigTyped, Tested
<1>6. ASSUME NEW a \in Calls, PatchCheck(a) PROVE ConfigInv'
  <2>1. PICK limits \in [Kinds -> Limits] :
           admin' = [admin EXCEPT ![a] = [Idle EXCEPT !.pc = "replace", !.limits = Filled(limits)]]
    BY <1>6 DEF PatchCheck
  <2> DEFINE now == [Idle EXCEPT !.pc = "replace", !.limits = Filled(limits)]
  <2>2. IsCall(now) /\ now.pc = "replace"
    BY <1>0 DEF IsCall
  <2>3. UNCHANGED <<config, everPassed, stamp>>
    BY <1>6 DEF PatchCheck
  <2>. QED
    BY <2>1, <2>2, <2>3, <1>0, CallGoes DEF ConfigInv, ConfigTyped, Tested
<1>7. ASSUME NEW a \in Calls, PatchClear(a) PROVE ConfigInv'
  <2> DEFINE now == [admin[a] EXCEPT !.pc = "create"]
  <2>1. IsCall(now) /\ now.pc = "create"
    BY <1>0 DEF ConfigTyped, IsCall
  <2>2. admin' = [admin EXCEPT ![a] = now] /\ UNCHANGED <<config, everPassed, stamp>>
    BY <1>7 DEF PatchClear
  <2>. QED
    BY <2>1, <2>2, <1>0, CallGoes DEF ConfigInv, ConfigTyped, Tested
<1>8. ASSUME NEW a \in Calls, PatchCreate(a) \/ CallDies(a) PROVE ConfigInv'
  <2>1. admin' = [admin EXCEPT ![a] = Idle] /\ UNCHANGED <<config, everPassed, stamp>>
    BY <1>8 DEF PatchCreate, CallDies
  <2>. QED
    BY <2>1, <1>0, CallGoes DEF ConfigInv, ConfigTyped, Tested
<1>9. CASE (\E r \in CfgRuns : FreezeBudget(r)) \/ UNCHANGED cfVars
  BY <1>9 DEF FreezeBudget, cfVars, ConfigInv, ConfigTyped, Tested
<1>. QED
  BY <1>1, <1>2, <1>3, <1>4, <1>5, <1>6, <1>7, <1>8, <1>9 DEF ConfigNext

\* However saves, tests and activations cross, and wherever one stops, the version that is
\* served has passed a test of its own digest.
THEOREM ServedIsTested == ConfigSpec => []ServedWasTested
<1>1. ConfigInv => ServedWasTested
  BY DEF ConfigInv, ConfigTyped, Tested, ServedWasTested, Served
<1>. QED
  BY <1>1, ConfigInitInv, ConfigStepInv, PTL DEF ConfigSpec

----------------------------------------------------------------------------
(***************************************************************************)
(* ReportGate: what is published is grounded, and its verdict earned.      *)
(***************************************************************************)

Draft(r) == r \in [support : {r.support}, challenge : {r.challenge}, check : {r.check},
                   quality : {r.quality}, verdict : {r.verdict}]

\* What verify looks at is what both roles returned, each answer accepted; a verdict stands in
\* it only when both roles ran to an end.
Drafted ==
    /\ \A r \in Roles : PassesValidateRole(r)
    /\ report.support = answer["supporter"].args /\ report.challenge = answer["challenger"].args
    /\ report.quality = "completed" => \A r \in Roles : answer[r].outcome = "ran"
    /\ report.verdict # NoVerdict => report.quality = "completed"

\* What was published has passed the gate, and its verdict is the one of its fact check.
Gated ==
    /\ gateReport
    /\ report.verdict # NoVerdict =>
          report.verdict = verdictFromFactChecks(AdjudicateClaim(report.support, report.challenge))

GateInv ==
    /\ Draft(report)
    /\ stage \in {"verify", "published"} => Drafted
    /\ stage = "published" => Gated

LEMMA GateInitInv == GateInit => GateInv
  BY DEF GateInit, GateInv, Draft, NoReport

\* The fact check looks at the claim and the arguments only.
LEMMA FactCheckStays ==
    ASSUME UNCHANGED item, report'.support = report.support, report'.challenge = report.challenge
    PROVE  AdjudicateClaim(report.support, report.challenge)' = AdjudicateClaim(report.support, report.challenge)
<1>1. /\ relevantArgs(report.support)' = relevantArgs(report.support)
      /\ relevantArgs(report.challenge)' = relevantArgs(report.challenge)
  BY DEF relevantArgs
<1>2. /\ directContradiction(relevantArgs(report.support), relevantArgs(report.challenge))'
           = directContradiction(relevantArgs(report.support), relevantArgs(report.challenge))
      /\ challengeNegatesClaim(relevantArgs(report.challenge))'
           = challengeNegatesClaim(relevantArgs(report.challenge))
  BY <1>1 DEF directContradiction, challengeNegatesClaim
<1>. QED
  BY <1>1, <1>2 DEF AdjudicateClaim

LEMMA GateStepInv == GateInv /\ [GateNext]_rgVars => GateInv'
<1> SUFFICES ASSUME GateInv, [GateNext]_rgVars PROVE GateInv'
  OBVIOUS
<1>1. CASE Synthesize
  <2> DEFINE support == Kept("supporter")
             challenge == Kept("challenger")
             check == AdjudicateClaim(support, challenge)
             verdict == IF QualityOf = "completed" THEN JudgeClaim(support, challenge) ELSE NoVerdict
  <2>1. /\ report' = [support |-> support, challenge |-> challenge, check |-> check,
                      quality |-> QualityOf, verdict |-> verdict]
        /\ stage' = IF FailRun THEN "failed" ELSE "verify"
        /\ UNCHANGED <<item, answer>>
    BY <1>1 DEF Synthesize
  <2> HIDE DEF support, challenge, check, verdict
  <2>2. Draft(report')
    BY <2>1 DEF Draft
  <2>3. ASSUME ~FailRun PROVE Drafted'
    <3>1. \A r \in Roles : PassesValidateRole(r)
      BY <2>3 DEF FailRun
    <3>2. support = answer["supporter"].args /\ challenge = answer["challenger"].args
      BY <3>1 DEF support, challenge, Kept, Roles
    <3>3. QualityOf = "completed" => \A r \in Roles : answer[r].outcome = "ran"
      BY DEF QualityOf, roleExecutable
    <3>4. verdict # NoVerdict => QualityOf = "completed"
      BY DEF verdict
    <3>5. (\A r \in Roles : PassesValidateRole(r))'
      BY <2>1, <3>1 DEF PassesValidateRole
    <3>. QED
      BY <2>1, <3>2, <3>3, <3>4, <3>5 DEF Drafted
  <2>. QED
    BY <2>1, <2>2, <2>3 DEF GateInv
<1>2. CASE Refuse
  BY <1>2 DEF Refuse, GateInv, Draft
<1>3. CASE Publish
  <2> DEFINE check == AdjudicateClaim(report.support, report.challenge)
             verdict == IF report.quality = "completed" THEN verdictFromFactChecks(check) ELSE report.verdict
  <2>1. /\ Draft(report) /\ Drafted /\ gateReport
        /\ report' = [report EXCEPT !.check = check, !.verdict = verdict]
        /\ UNCHANGED <<item, answer>> /\ stage' = "published"
    BY <1>3 DEF Publish, GateInv
  <2>2. (\A r \in Roles : PassesValidateRole(r))'
    BY <2>1 DEF Drafted, PassesValidateRole
  <2> HIDE DEF verdict
  <2>4. /\ Draft(report') /\ report'.support = report.support /\ report'.challenge = report.challenge
        /\ report'.quality = report.quality /\ report'.verdict = verdict
    BY <2>1 DEF Draft
  <2>5. verdict # NoVerdict => report.quality = "completed"
    BY <2>1 DEF verdict, Drafted
  <2>6. Drafted'
    BY <2>1, <2>2, <2>4, <2>5 DEF Drafted
  <2>7. gateReport'
    BY <2>1, <2>4 DEF gateReport, numberBound
  <2>8. AdjudicateClaim(report.support, report.challenge)' = check
    BY <2>1, <2>4, FactCheckStays
  <2>9. Gated'
    BY <2>4, <2>5, <2>7, <2>8 DEF Gated, verdict, verdictFromFactChecks
  <2>. QED
    BY <2>1, <2>4, <2>6, <2>9 DEF GateInv
<1>4. CASE UNCHANGED rgVars
  <2>1. AdjudicateClaim(report.support, report.challenge)' = AdjudicateClaim(report.support, report.challenge)
    BY <1>4, FactCheckStays DEF rgVars
  <2>2. Drafted => Drafted'
    BY <1>4 DEF rgVars, Drafted, PassesValidateRole
  <2>3. Gated => Gated'
    BY <1>4, <2>1 DEF rgVars, Gated, gateReport, numberBound, verdictFromFactChecks
  <2>. QED
    BY <1>4, <2>2, <2>3 DEF rgVars, GateInv, Draft
<1>. QED
  BY <1>1, <1>2, <1>3, <1>4 DEF GateNext

LEMMA GateInvariance == GateSpec => []GateInv
  BY GateInitInv, GateStepInv, PTL DEF GateSpec

\* What the fact check says about the arguments it looked at.
LEMMA FactCheckMeans ==
    ASSUME NEW support, NEW challenge
    PROVE  LET s == relevantArgs(support)
               c == relevantArgs(challenge)
               v == verdictFromFactChecks(AdjudicateClaim(support, challenge))
           IN /\ v = "supported" => s # {} /\ c = {}
              /\ v = "challenged" => c # {}
              /\ item.outlook => v = "insufficient"
<1> DEFINE s == relevantArgs(support)
           c == relevantArgs(challenge)
           check == AdjudicateClaim(support, challenge)
<1>1. directContradiction(s, c) => s # {} /\ c # {}
  BY DEF directContradiction
<1>2. /\ item.outlook => check = "prerequisite_missing"
      /\ check = "supported" => s # {} /\ c = {}
      /\ check = "contradicted" => c # {}
      /\ check \in {"prerequisite_missing", "contradicted", "uncertain", "supported"}
  <2> HIDE DEF s, c
  <2>1. check = CASE item.outlook -> "prerequisite_missing"
         [] ~item.outlook /\ directContradiction(s, c) -> "contradicted"
         [] ~item.outlook /\ ~directContradiction(s, c) /\ s # {} /\ c # {} -> "uncertain"
         [] ~item.outlook /\ s = {} /\ c # {} ->
                IF challengeNegatesClaim(c) THEN "contradicted" ELSE "uncertain"
         [] ~item.outlook /\ s # {} /\ c = {} -> "supported"
         [] ~item.outlook /\ s = {} /\ c = {} ->
                IF item.type = "assumption" THEN "prerequisite_missing" ELSE "uncertain"
    BY DEF AdjudicateClaim, s, c
  <2> HIDE DEF check
  <2>. QED
    BY <1>1, <2>1
<1>. QED
  BY <1>2 DEF verdictFromFactChecks

\* For all evidence, numbers and answers of the two roles: what is published is grounded in the
\* evidence of the role it stands for, and its verdict in what both roles found.
THEOREM PublishedIsFounded == GateSpec => []PublishedIsEarned
<1>1. GateInv => PublishedIsGrounded
  <2> SUFFICES ASSUME GateInv, stage = "published"
               PROVE  \A side \in {<<"supporter", report.support>>, <<"challenger", report.challenge>>} :
                        \A a \in side[2] :
                          /\ a \in answer[side[1]].args /\ a.cites \subseteq HeldBy[side[1]]
                          /\ (a.type = "material" /\ a.number # NoNumber) =>
                                 \E e \in a.cites : a.number \in Prints[e]
    BY DEF PublishedIsGrounded
  <2>1. Drafted /\ Gated
    BY DEF GateInv
  <2>2. ASSUME NEW role \in Roles, NEW a \in answer[role].args
        PROVE  a.cites \subseteq HeldBy[role]
    BY <2>1 DEF Drafted, PassesValidateRole
  <2>3. ASSUME NEW a \in report.support \cup report.challenge, a.type = "material", a.number # NoNumber
        PROVE  \E e \in a.cites : a.number \in Prints[e]
    BY <2>1, <2>3 DEF Gated, gateReport, numberBound
  <2>. QED
    BY <2>1, <2>2, <2>3 DEF Drafted, Roles
<1>2. GateInv => VerdictIsEarned
  <2> SUFFICES ASSUME GateInv, stage = "published", report.verdict # NoVerdict
               PROVE  /\ \A r \in Roles : answer[r].outcome = "ran"
                      /\ report.verdict = "supported" => CitedBy("supporter") # {} /\ CitedBy("challenger") = {}
                      /\ report.verdict = "challenged" => CitedBy("challenger") # {}
                      /\ item.outlook => report.verdict = "insufficient"
    BY DEF VerdictIsEarned
  <2>1. Drafted /\ Gated
    BY DEF GateInv
  <2>2. relevantArgs(report.support) \subseteq CitedBy("supporter")
        /\ relevantArgs(report.challenge) \subseteq CitedBy("challenger")
        /\ (relevantArgs(report.support) # {} => relevantArgs(report.challenge) = CitedBy("challenger"))
    BY <2>1 DEF Drafted, relevantArgs, CitedBy
  <2>3. report.verdict = verdictFromFactChecks(AdjudicateClaim(report.support, report.challenge))
    BY <2>1 DEF Gated
  <2>. QED
    BY <2>1, <2>2, <2>3, FactCheckMeans DEF Drafted
<1>. QED
  BY <1>1, <1>2, GateInvariance, PTL DEF PublishedIsEarned

----------------------------------------------------------------------------
(***************************************************************************)
(* DocumentSpans: however a document is put together from its parts, each  *)
(* span stays over the text it quotes.                                     *)
(***************************************************************************)

\* Numbers up to n have a least and a greatest.
LEMMA Extremes ==
    ASSUME NEW n \in Nat, NEW S, S \subseteq 1 .. n, S # {}
    PROVE  /\ Min(S) \in S /\ \A j \in S : Min(S) <= j
           /\ Max(S) \in S /\ \A j \in S : j <= Max(S)
<1> DEFINE Before == {m \in (Nat \X Nat) : m[1] < m[2]}
           T == {n - j : j \in S}
<1>1. IsWellFoundedOn(Before, Nat)
  BY NatLessThanWellFounded DEF OpToRel
<1>2. S \subseteq Nat /\ T \subseteq Nat /\ T # {}
  <2>1. \A j \in S : j \in Nat /\ n - j \in Nat
    OBVIOUS
  <2>. QED
    BY <2>1
<1>3. PICK x \in S : \A y \in S : <<y, x>> \notin Before
  <2>. HIDE DEF Before
  <2>. QED
    BY <1>1, <1>2, WFMin
<1>4. PICK z \in T : \A y \in T : <<y, z>> \notin Before
  <2>. HIDE DEF Before, T
  <2>. QED
    BY <1>1, <1>2, WFMin
<1>5. ASSUME NEW y \in S PROVE x <= y
  <2>1. x \in Nat /\ y \in Nat /\ ~(<<y, x>> \in Before)
    BY <1>2, <1>3
  <2>. QED
    BY <2>1
<1>6. \E w \in S : \A j \in S : j <= w
  <2>1. PICK w \in S : z = n - w
    OBVIOUS
  <2>2. ASSUME NEW j \in S PROVE j <= w
    <3>1. n - j \in T /\ n - j \in Nat /\ z \in Nat
      BY <1>2
    <3>2. ~(<<n - j, z>> \in Before)
      BY <1>4, <3>1
    <3>3. ~(n - j < z)
      BY <3>1, <3>2
    <3>. QED
      BY <2>1, <3>3
  <2>. QED
    BY <2>2
<1>7. Min(S) \in S /\ \A j \in S : Min(S) <= j
  BY <1>5 DEF Min
<1>8. Max(S) \in S /\ \A j \in S : Max(S) >= j
  BY <1>6 DEF Max
<1>. QED
  BY <1>7, <1>8

----------------------------------------------------------------------------
\* Texts of any length.
Text == Seq({NL, BL} \cup Chars)

\* Of the characters a to b, the first with ink is p and the last q.
Within(t, a, b, p, q) ==
    /\ p \in Inked(t) /\ q \in Inked(t) /\ a <= p /\ p <= q /\ q <= b
    /\ \A i \in Inked(t) : a <= i /\ i <= b => p <= i /\ i <= q

\* What Trim leaves runs from the first to the last character with ink.
LEMMA TrimIs ==
    ASSUME NEW t \in Text
    PROVE  /\ Len(t) \in Nat /\ Inked(t) \subseteq 1 .. Len(t)
           /\ \A i \in 1 .. Len(t) : t[i] \in {NL, BL} \cup Chars
           /\ Trim(t) \in Text
           /\ Inked(t) = {} => Trim(t) = <<>>
           /\ \A p, q \in Inked(t) :
                 (\A i \in Inked(t) : p <= i /\ i <= q) =>
                    /\ p \in 1 .. Len(t) /\ q \in 1 .. Len(t)
                    /\ Trim(t) = SubSeq(t, p, q) /\ Len(Trim(t)) = q - p + 1 /\ Trim(t) # <<>>
           /\ Inked(t) # {} => \E p, q \in Inked(t) : \A i \in Inked(t) : p <= i /\ i <= q
<1>1. Len(t) \in Nat /\ Inked(t) \subseteq 1 .. Len(t) /\ \A i \in 1 .. Len(t) : t[i] \in {NL, BL} \cup Chars
  BY LenProperties, ElementOfSeq DEF Text, Inked
<1>2. CASE Inked(t) = {}
  <2>1. Trim(t) = <<>>
    BY <1>2 DEF Trim
  <2>. QED
    BY <1>1, <1>2, <2>1, EmptySeq DEF Text
<1>3. CASE Inked(t) # {}
  <2> DEFINE m == Min(Inked(t))
             x == Max(Inked(t))
  <2>1. /\ m \in Inked(t) /\ \A j \in Inked(t) : m <= j
        /\ x \in Inked(t) /\ \A j \in Inked(t) : j <= x
    BY <1>1, <1>3, Extremes
  <2>2. Trim(t) = SubSeq(t, m, x)
    BY <1>3 DEF Trim
  <2>. HIDE DEF m, x
  <2>3. m \in 1 .. Len(t) /\ x \in 1 .. Len(t) /\ m <= x
    BY <1>1, <2>1
  <2>4. \A i \in m .. x : t[i] \in {NL, BL} \cup Chars
    BY <1>1, <2>3
  <2>5. m \in Int /\ x \in Int
    BY <2>3
  <2>6. Trim(t) \in Text /\ Len(Trim(t)) = x - m + 1
    BY <2>2, <2>3, <2>4, <2>5, SubSeqProperties DEF Text
  <2>7. Trim(t) # <<>>
    <3>1. Len(Trim(t)) # 0
      BY <2>3, <2>6
    <3>. QED
      BY <3>1, EmptySeq
  <2>8. ASSUME NEW p \in Inked(t), NEW q \in Inked(t), \A i \in Inked(t) : p <= i /\ i <= q
        PROVE  p = m /\ q = x
    BY <1>1, <2>1, <2>8
  <2>. QED
    BY <1>1, <1>3, <2>1, <2>2, <2>3, <2>6, <2>7, <2>8
<1>. QED
  BY <1>2, <1>3

\* The ink of a part is the ink of the text.
LEMMA PartOf ==
    ASSUME NEW t \in Text, NEW a \in 1 .. Len(t), NEW b \in a .. Len(t)
    PROVE  /\ SubSeq(t, a, b) \in Text /\ Len(SubSeq(t, a, b)) = b - a + 1
           /\ \A i \in 1 .. b - a + 1 : i \in Inked(SubSeq(t, a, b)) <=> a + i - 1 \in Inked(t)
           /\ \A i \in Inked(SubSeq(t, a, b)) : i \in 1 .. b - a + 1
<1>1. Len(t) \in Nat /\ \A i \in 1 .. Len(t) : t[i] \in {NL, BL} \cup Chars
  BY TrimIs
<1>2. a \in Int /\ b \in Int /\ a <= b /\ \A i \in a .. b : i \in 1 .. Len(t)
  BY <1>1
<1>3. \A i \in a .. b : t[i] \in {NL, BL} \cup Chars
  BY <1>1, <1>2
<1>4. /\ SubSeq(t, a, b) \in Text
      /\ Len(SubSeq(t, a, b)) = b - a + 1
      /\ \A i \in 1 .. b - a + 1 : SubSeq(t, a, b)[i] = t[a + i - 1]
  BY <1>2, <1>3, SubSeqProperties DEF Text
<1>5. \A i \in 1 .. b - a + 1 : a + i - 1 \in 1 .. Len(t)
  BY <1>1, <1>2
<1>. QED
  BY <1>4, <1>5 DEF Inked

\* Trimming a part gives the text between the ink it starts and ends with.
LEMMA TrimPart ==
    ASSUME NEW t \in Text, NEW a \in 1 .. Len(t), NEW b \in a .. Len(t)
    PROVE  /\ \A p, q : Within(t, a, b, p, q) => Trim(SubSeq(t, a, b)) = SubSeq(t, p, q)
           /\ Trim(SubSeq(t, a, b)) # <<>> <=> \E p, q : Within(t, a, b, p, q)
           /\ (\E i \in Inked(t) : a <= i /\ i <= b) => \E p, q : Within(t, a, b, p, q)
<1> DEFINE s == SubSeq(t, a, b)
<1>1. /\ s \in Text /\ Len(s) = b - a + 1
      /\ \A i \in 1 .. b - a + 1 : i \in Inked(s) <=> a + i - 1 \in Inked(t)
      /\ \A i \in Inked(s) : i \in 1 .. b - a + 1
  BY PartOf
<1>2. Len(t) \in Nat /\ Inked(t) \subseteq 1 .. Len(t) /\ a \in Nat /\ b \in Nat /\ a <= b
  BY TrimIs
<1>a. \A i \in Inked(t) : a <= i /\ i <= b => i - a + 1 \in Inked(s)
  <2>1. ASSUME NEW i \in Inked(t), a <= i, i <= b PROVE i - a + 1 \in 1 .. b - a + 1 /\ a + (i - a + 1) - 1 = i
    BY <1>2, <2>1
  <2>. QED
    BY <1>1, <2>1
<1>3. ASSUME NEW p, NEW q, Within(t, a, b, p, q)
      PROVE  Trim(s) = SubSeq(t, p, q) /\ Trim(s) # <<>>
  <2> DEFINE m == p - a + 1
             n == q - a + 1
  <2>1. p \in a .. b /\ q \in a .. b /\ p <= q /\ p \in Inked(t) /\ q \in Inked(t)
    BY <1>2, <1>3 DEF Within
  <2>2. m \in 1 .. b - a + 1 /\ n \in 1 .. b - a + 1 /\ m \in Inked(s) /\ n \in Inked(s)
    BY <1>2, <1>a, <2>1
  <2>3. ASSUME NEW i \in Inked(s) PROVE m <= i /\ i <= n
    <3>1. i \in 1 .. b - a + 1 /\ a + i - 1 \in Inked(t)
      BY <1>1
    <3>2. a <= a + i - 1 /\ a + i - 1 <= b
      BY <1>2, <3>1
    <3>3. p <= a + i - 1 /\ a + i - 1 <= q
      BY <1>3, <3>1, <3>2 DEF Within
    <3>. QED
      BY <1>2, <2>1, <3>1, <3>3
  <2>4. Trim(s) = SubSeq(s, m, n) /\ Trim(s) # <<>>
    <3>. HIDE DEF m, n, s
    <3>. QED
      BY <1>1, <2>2, <2>3, TrimIs
  <2>5. SubSeq(s, m, n) = SubSeq(t, a + m - 1, a + n - 1)
    <3>1. a \in 1 .. Len(t) /\ b \in 1 .. Len(t)
      BY <1>2
    <3>. HIDE DEF m, n
    <3>. QED
      BY <2>2, <3>1, SubSeqOfSubSeq DEF Text
  <2>6. a + m - 1 = p /\ a + n - 1 = q
    BY <1>2, <2>1
  <2>. QED
    BY <2>4, <2>5, <2>6
<1>4. ASSUME Inked(s) # {} PROVE \E p, q : Within(t, a, b, p, q)
  <2>1. PICK m \in Inked(s), n \in Inked(s) : \A i \in Inked(s) : m <= i /\ i <= n
    <3>. HIDE DEF s
    <3>. QED
      BY <1>1, <1>4, TrimIs
  <2>2. m \in 1 .. b - a + 1 /\ n \in 1 .. b - a + 1 /\ m <= n
    BY <1>1, <2>1
  <2>3. a + m - 1 \in Inked(t) /\ a + n - 1 \in Inked(t)
    BY <1>1, <2>1, <2>2
  <2>4. ASSUME NEW i \in Inked(t), a <= i, i <= b PROVE a + m - 1 <= i /\ i <= a + n - 1
    <3>1. m <= i - a + 1 /\ i - a + 1 <= n
      BY <1>a, <2>1, <2>4
    <3>. QED
      BY <1>2, <2>2, <3>1
  <2>5. Within(t, a, b, a + m - 1, a + n - 1)
    <3>1. a <= a + m - 1 /\ a + m - 1 <= a + n - 1 /\ a + n - 1 <= b
      BY <1>2, <2>2
    <3>. QED
      BY <2>3, <2>4, <3>1 DEF Within
  <2>. QED
    BY <2>5
<1>5. Trim(s) # <<>> => Inked(s) # {}
  <2>. HIDE DEF s
  <2>. QED
    BY <1>1, TrimIs
<1>. QED
  BY <1>3, <1>4, <1>5, <1>a

\* Trimming what is trimmed changes nothing.
LEMMA TrimTwice == ASSUME NEW t \in Text PROVE Trim(Trim(t)) = Trim(t)
<1>1. CASE Inked(t) = {}
  <2>1. Trim(t) = <<>>
    BY <1>1, TrimIs
  <2>2. Len(<<>>) = 0
    OBVIOUS
  <2>3. Inked(<<>>) = {}
    BY <2>2 DEF Inked
  <2>. QED
    BY <2>1, <2>3 DEF Trim
<1>2. CASE Inked(t) # {}
  <2>1. PICK p \in Inked(t), q \in Inked(t) : \A i \in Inked(t) : p <= i /\ i <= q
    BY <1>2, TrimIs
  <2>2. Trim(t) = SubSeq(t, p, q) /\ p \in 1 .. Len(t) /\ q \in 1 .. Len(t) /\ Len(t) \in Nat
    BY <2>1, TrimIs
  <2>3. p <= q /\ q \in p .. Len(t)
    BY <2>1, <2>2
  <2>4. Within(t, p, q, p, q)
    BY <2>1, <2>2, <2>3 DEF Within
  <2>. QED
    BY <2>2, <2>3, <2>4, TrimPart
<1>. QED
  BY <1>1, <1>2

----------------------------------------------------------------------------
\* The spans of a text are where the text is.
Placed(text, spans) ==
    /\ spans \subseteq [start : Nat, end : Nat, text : Text]
    /\ \A s \in spans :
          s.end <= Len(text) /\ s.start < s.end /\ Trim(Slice(text, s)) = s.text
    /\ \A s, r \in spans : s = r \/ s.end <= r.start \/ r.end <= s.start
    /\ \A i \in Inked(text) : \E s \in spans : s.start < i /\ i <= s.end

\* A block of a text with something in it, and the span it becomes.
Covered(t, c) ==
    /\ c \in (1 .. Len(t)) \X (1 .. Len(t))
    /\ c[1] <= c[2] /\ Block(t, c[1], c[2]) /\ Trim(SubSeq(t, c[1], c[2])) # <<>>

SpanOf(t, c) ==
    [start |-> Min(NoNewline(t, c[1], c[2])) - 1, end |-> Max(NoNewline(t, c[1], c[2])),
     text |-> Trim(SubSeq(t, c[1], c[2]))]

LEMMA SpansAre ==
    ASSUME NEW t
    PROVE  /\ \A c : Covered(t, c) => SpanOf(t, c) \in TextSpans(t)
           /\ \A s \in TextSpans(t) : \E c : Covered(t, c) /\ s = SpanOf(t, c)
BY DEF TextSpans, Covered, SpanOf

\* The span of a block loses newlines only, and so no ink.
LEMMA SpanPlaced ==
    ASSUME NEW t \in Text, NEW c, Covered(t, c)
    PROVE  /\ SpanOf(t, c) \in [start : Nat, end : Nat, text : Text]
           /\ c[1] <= SpanOf(t, c).start + 1 /\ SpanOf(t, c).start < SpanOf(t, c).end
           /\ SpanOf(t, c).end <= c[2]
           /\ Trim(Slice(t, SpanOf(t, c))) = SpanOf(t, c).text
           /\ \A i \in Inked(t) : c[1] <= i /\ i <= c[2] => SpanOf(t, c).start < i /\ i <= SpanOf(t, c).end
<1> DEFINE a == c[1]
           b == c[2]
           N == NoNewline(t, a, b)
           m == Min(N)
           x == Max(N)
<1>1. Len(t) \in Nat /\ a \in 1 .. Len(t) /\ b \in 1 .. Len(t) /\ a <= b /\ Trim(SubSeq(t, a, b)) # <<>>
  BY TrimIs DEF Covered
<1>a. b \in a .. Len(t) /\ Inked(t) \subseteq 1 .. Len(t)
  BY <1>1, TrimIs
<1>2. PICK p, q : Within(t, a, b, p, q)
  <2>. HIDE DEF a, b
  <2>. QED
    BY <1>1, <1>a, TrimPart
<1>3. \A i \in Inked(t) : a <= i /\ i <= b => i \in N
  BY <1>1, <1>a DEF NoNewline, Inked, White
<1>4. p \in N /\ q \in N /\ p \in Inked(t) /\ q \in Inked(t) /\ p <= q
  BY <1>1, <1>2, <1>3, <1>a DEF Within
<1>5. N \subseteq 1 .. b /\ N # {} /\ b \in Nat /\ \A i \in N : a <= i
  BY <1>1, <1>4 DEF NoNewline
<1>6. m \in N /\ x \in N /\ \A i \in N : m <= i /\ i <= x
  <2>. HIDE DEF N, b
  <2>. QED
    BY <1>5, Extremes
<1> HIDE DEF m, x, N
<1>7. m \in 1 .. Len(t) /\ x \in m .. Len(t) /\ a <= m /\ m <= x /\ x <= b /\ m <= p /\ q <= x
  BY <1>1, <1>4, <1>5, <1>6
<1>8. Within(t, m, x, p, q)
  <2>1. ASSUME NEW i \in Inked(t), m <= i, i <= x PROVE a <= i /\ i <= b
    BY <1>1, <1>7, <1>a, <2>1
  <2>. QED
    BY <1>2, <1>4, <1>7, <2>1 DEF Within
<1>9. Trim(SubSeq(t, m, x)) = SubSeq(t, p, q)
  BY <1>7, <1>8, TrimPart
<1>10. Trim(SubSeq(t, a, b)) = SubSeq(t, p, q)
  <2>. HIDE DEF a, b
  <2>. QED
    BY <1>1, <1>2, <1>a, TrimPart
<1>11. Trim(SubSeq(t, a, b)) \in Text
  <2>. HIDE DEF a, b
  <2>1. SubSeq(t, a, b) \in Text
    BY <1>1, <1>a, PartOf
  <2>. QED
    BY <2>1, TrimIs
<1> DEFINE s == SpanOf(t, c)
<1>12. s = [start |-> m - 1, end |-> x, text |-> Trim(SubSeq(t, a, b))]
  BY DEF SpanOf, m, x, N
<1>13. s.start = m - 1 /\ s.end = x /\ s.text = Trim(SubSeq(t, a, b)) /\ m - 1 \in Nat /\ x \in Nat /\ m - 1 + 1 = m
  BY <1>1, <1>7, <1>12
<1>14. s \in [start : Nat, end : Nat, text : Text]
  <2>. HIDE DEF s, a, b
  <2>. QED
    BY <1>11, <1>12, <1>13
<1>15. Trim(Slice(t, s)) = s.text
  BY <1>9, <1>10, <1>13 DEF Slice
<1>16. ASSUME NEW i \in Inked(t), a <= i, i <= b PROVE s.start < i /\ i <= s.end
  <2>1. m <= i /\ i <= x /\ i \in Nat
    BY <1>3, <1>6, <1>16, <1>a
  <2>. HIDE DEF s
  <2>. QED
    BY <1>7, <1>13, <2>1
<1>17. a <= s.start + 1 /\ s.start < s.end /\ s.end <= b
  <2>. HIDE DEF s, a, b
  <2>. QED
    BY <1>1, <1>7, <1>13
<1>. QED
  BY <1>14, <1>15, <1>16, <1>17

\* Blocks end at breaks, so that two of them do not overlap.
LEMMA BlocksApart ==
    ASSUME NEW t \in Text, NEW c, NEW d, Covered(t, c), Covered(t, d)
    PROVE  c = d \/ c[2] < d[1] \/ d[2] < c[1]
<1>1. Len(t) \in Nat
  BY TrimIs
<1>2. /\ c[1] \in 1 .. Len(t) /\ c[2] \in 1 .. Len(t) /\ c[1] <= c[2] /\ c = <<c[1], c[2]>>
      /\ d[1] \in 1 .. Len(t) /\ d[2] \in 1 .. Len(t) /\ d[1] <= d[2] /\ d = <<d[1], d[2]>>
  BY DEF Covered
<1>3. ASSUME NEW a \in 1 .. Len(t), NEW b \in 1 .. Len(t), NEW e \in 1 .. Len(t), NEW f \in 1 .. Len(t),
             Block(t, a, b), Block(t, e, f), a <= f, e <= b
      PROVE  ~(a < e) /\ ~(b < f)
  <2>1. CASE a < e
    <3>1. e > 1 /\ e - 1 \in a .. b
      BY <1>1, <1>3, <2>1
    <3>. QED
      BY <1>3, <3>1 DEF Block
  <2>2. CASE b < f
    <3>1. b < Len(t) /\ b + 1 \in e .. f
      BY <1>1, <1>3, <2>2
    <3>. QED
      BY <1>3, <3>1 DEF Block
  <2>. QED
    BY <2>1, <2>2
<1>4. Block(t, c[1], c[2]) /\ Block(t, d[1], d[2])
  BY DEF Covered
<1>5. CASE c[1] <= d[2] /\ d[1] <= c[2]
  <2>1. ~(c[1] < d[1]) /\ ~(c[2] < d[2]) /\ ~(d[1] < c[1]) /\ ~(d[2] < c[2])
    BY <1>2, <1>3, <1>4, <1>5
  <2>. QED
    BY <1>1, <1>2, <2>1
<1>. QED
  BY <1>1, <1>2, <1>5

\* Around what is no break there is a block.
LEMMA BlockAround ==
    ASSUME NEW t \in Text, NEW i \in Inked(t)
    PROVE  \E a, b \in 1 .. Len(t) : a <= i /\ i <= b /\ Block(t, a, b)
<1>1. Len(t) \in Nat /\ i \in 1 .. Len(t) /\ ~InBreak(t, i)
  BY TrimIs DEF Inked, White, InBreak
<1> DEFINE L == {x \in 1 .. i : \A k \in x .. i : ~InBreak(t, k)}
           R == {x \in 1 .. Len(t) : i <= x /\ \A k \in i .. x : ~InBreak(t, k)}
           a == Min(L)
           b == Max(R)
<1>2. i \in L /\ i \in R /\ L \subseteq 1 .. Len(t) /\ R \subseteq 1 .. Len(t)
  <2>1. \A k \in i .. i : k = i
    BY <1>1
  <2>. QED
    BY <1>1, <2>1
<1>3. a \in L /\ \A j \in L : a <= j
  <2>. HIDE DEF L
  <2>. QED
    BY <1>1, <1>2, Extremes
<1>4. b \in R /\ \A j \in R : j <= b
  <2>. HIDE DEF R
  <2>. QED
    BY <1>1, <1>2, Extremes
<1> HIDE DEF a, b
<1>5. a \in 1 .. i /\ b \in 1 .. Len(t) /\ i <= b
  BY <1>3, <1>4
<1>6. ASSUME NEW k \in a .. b PROVE ~InBreak(t, k)
  <2>1. k \in a .. i \/ k \in i .. b
    BY <1>1, <1>5
  <2>. QED
    BY <1>3, <1>4, <2>1
<1>7. ASSUME a > 1, ~InBreak(t, a - 1) PROVE FALSE
  <2>1. a - 1 \in 1 .. i
    BY <1>1, <1>5, <1>7
  <2>2. ASSUME NEW k \in (a - 1) .. i PROVE ~InBreak(t, k)
    <3>1. k = a - 1 \/ k \in a .. i
      BY <1>1, <1>5
    <3>. QED
      BY <1>3, <1>7, <3>1
  <2>3. a - 1 \in L
    BY <2>1, <2>2
  <2>. QED
    BY <1>3, <1>5, <2>3
<1>8. ASSUME b < Len(t), ~InBreak(t, b + 1) PROVE FALSE
  <2>1. b + 1 \in 1 .. Len(t) /\ i <= b + 1
    BY <1>1, <1>5, <1>8
  <2>2. ASSUME NEW k \in i .. (b + 1) PROVE ~InBreak(t, k)
    <3>1. k = b + 1 \/ k \in i .. b
      BY <1>1, <1>5
    <3>. QED
      BY <1>4, <1>8, <3>1
  <2>3. b + 1 \in R
    BY <2>1, <2>2
  <2>. QED
    BY <1>4, <1>5, <2>3
<1>9. Block(t, a, b)
  BY <1>6, <1>7, <1>8 DEF Block
<1>10. a \in 1 .. Len(t) /\ a <= i
  BY <1>1, <1>5
<1>. QED
  BY <1>5, <1>9, <1>10

\* textSpans leaves out no ink.
LEMMA TextSpansPlaced == ASSUME NEW t \in Text PROVE Placed(t, TextSpans(t))
<1>0. Len(t) \in Nat /\ Inked(t) \subseteq 1 .. Len(t)
  BY TrimIs
<1>1. ASSUME NEW s \in TextSpans(t)
      PROVE  /\ s \in [start : Nat, end : Nat, text : Text]
             /\ s.end <= Len(t) /\ s.start < s.end /\ Trim(Slice(t, s)) = s.text
  <2>1. PICK c : Covered(t, c) /\ s = SpanOf(t, c)
    BY SpansAre
  <2>2. c[2] \in Nat /\ c[2] <= Len(t)
    BY <1>0, <2>1 DEF Covered
  <2>3. s \in [start : Nat, end : Nat, text : Text] /\ s.start < s.end /\ s.end <= c[2] /\ Trim(Slice(t, s)) = s.text
    BY <2>1, SpanPlaced
  <2>. QED
    BY <1>0, <2>2, <2>3
<1>2. ASSUME NEW s \in TextSpans(t), NEW r \in TextSpans(t), s # r
      PROVE  s.end <= r.start \/ r.end <= s.start
  <2>1. PICK c : Covered(t, c) /\ s = SpanOf(t, c)
    BY SpansAre
  <2>2. PICK d : Covered(t, d) /\ r = SpanOf(t, d)
    BY SpansAre
  <2>3. c[2] < d[1] \/ d[2] < c[1]
    BY <1>2, <2>1, <2>2, BlocksApart
  <2>4. c[1] \in Nat /\ c[2] \in Nat /\ d[1] \in Nat /\ d[2] \in Nat
    BY <1>0, <2>1, <2>2 DEF Covered
  <2>5. c[1] <= s.start + 1 /\ s.end <= c[2] /\ d[1] <= r.start + 1 /\ r.end <= d[2]
    BY <2>1, <2>2, SpanPlaced
  <2>6. s.start \in Nat /\ s.end \in Nat /\ r.start \in Nat /\ r.end \in Nat
    BY <1>1
  <2>. QED
    BY <2>3, <2>4, <2>5, <2>6
<1>3. ASSUME NEW i \in Inked(t) PROVE \E s \in TextSpans(t) : s.start < i /\ i <= s.end
  <2>1. PICK a \in 1 .. Len(t), b \in 1 .. Len(t) : a <= i /\ i <= b /\ Block(t, a, b)
    BY BlockAround
  <2>2. a <= b /\ b \in a .. Len(t)
    BY <1>0, <2>1
  <2>3. Trim(SubSeq(t, a, b)) # <<>>
    BY <2>1, <2>2, TrimPart
  <2>4. Covered(t, <<a, b>>)
    BY <2>1, <2>2, <2>3 DEF Covered
  <2>5. SpanOf(t, <<a, b>>).start < i /\ i <= SpanOf(t, <<a, b>>).end
    <3>1. <<a, b>>[1] <= i /\ i <= <<a, b>>[2]
      BY <2>1
    <3>. QED
      BY <2>4, <3>1, SpanPlaced
  <2>. QED
    BY <2>4, <2>5, SpansAre
<1>. QED
  BY <1>1, <1>2, <1>3 DEF Placed

----------------------------------------------------------------------------
\* A string of gaps has no ink; what follows a text stays clear of its spans.
LEMMA JoinedPlaced ==
    ASSUME NEW doc, doc.text \in Text, Placed(doc.text, doc.spans),
           NEW gap \in Seq({NL}), NEW t \in Text, NEW spans, Placed(t, spans)
    PROVE  /\ Joined(doc, gap, t, spans).text \in Text
           /\ Placed(Joined(doc, gap, t, spans).text, Joined(doc, gap, t, spans).spans)
<1> DEFINE text == doc.text
           before == IF text = <<>> THEN <<>> ELSE text \o gap
           n == Len(before)
           new == before \o t
           moved == Shifted(spans, n)
<1>1. text \in Text /\ gap \in Text /\ <<>> \in Text /\ \A i \in 1 .. Len(gap) : gap[i] = NL
  BY SeqMonotonic, ElementOfSeq, EmptySeq DEF Text
<1>2. Len(text) \in Nat /\ Len(gap) \in Nat /\ Len(t) \in Nat
  BY <1>1, TrimIs
<1>3. /\ before \in Text /\ n \in Nat /\ Len(text) <= n
      /\ \A i \in 1 .. Len(text) : before[i] = text[i]
      /\ \A i \in 1 .. n : i <= Len(text) \/ before[i] = NL
  <2>1. CASE text = <<>>
    <3>1. before = <<>> /\ Len(<<>>) = 0
      BY <2>1
    <3>. HIDE DEF before
    <3>. QED
      BY <1>1, <2>1, <3>1
  <2>2. CASE text # <<>>
    <3>1. before = text \o gap
      BY <2>2
    <3>2. /\ text \o gap \in Text /\ Len(text \o gap) = Len(text) + Len(gap)
          /\ \A i \in 1 .. Len(text) + Len(gap) :
                (text \o gap)[i] = IF i <= Len(text) THEN text[i] ELSE gap[i - Len(text)]
      <4>. HIDE DEF text
      <4>. QED
        BY <1>1, ConcatProperties DEF Text
    <3>3. \A i \in 1 .. Len(text) + Len(gap) : ~(i <= Len(text)) => i - Len(text) \in 1 .. Len(gap)
      BY <1>2
    <3>. HIDE DEF before, text
    <3>. QED
      BY <1>1, <1>2, <3>1, <3>2, <3>3
  <2>. QED
    BY <2>1, <2>2
<1> HIDE DEF before
<1>4. /\ new \in Text /\ Len(new) = n + Len(t)
      /\ \A i \in 1 .. n + Len(t) : new[i] = IF i <= n THEN before[i] ELSE t[i - n]
  BY <1>3, ConcatProperties DEF Text
<1>5. Joined(doc, gap, t, spans) = [text |-> new, spans |-> doc.spans \cup moved]
  BY DEF Joined, before
<1>6. ASSUME NEW s \in doc.spans
      PROVE  /\ s \in [start : Nat, end : Nat, text : Text] /\ s.start < s.end
             /\ s.end <= n /\ s.end <= Len(new) /\ Trim(Slice(new, s)) = s.text
  <2>1. /\ s \in [start : Nat, end : Nat, text : Text] /\ s.end <= Len(text) /\ s.start < s.end
        /\ Trim(Slice(text, s)) = s.text
    BY DEF Placed
  <2>2. s.start \in Nat /\ s.end \in Nat /\ s.end <= n
    BY <1>2, <1>3, <2>1
  <2>3. s.start + 1 \in 1 .. Len(text) /\ s.end \in 1 .. Len(text) /\ s.start + 1 \in 1 .. n /\ s.end \in 1 .. n
    BY <1>2, <1>3, <2>1, <2>2
  <2>4. SubSeq(new, s.start + 1, s.end) = SubSeq(before, s.start + 1, s.end)
    BY <1>3, <2>3, SubSeqOfConcat1 DEF Text
  <2>5. SubSeq(before, s.start + 1, s.end) = SubSeq(text, s.start + 1, s.end)
    <3>1. CASE text = <<>>
      BY <1>2, <2>3, <3>1
    <3>2. CASE text # <<>>
      <4>1. before = text \o gap
        BY <3>2 DEF before
      <4>. HIDE DEF text
      <4>. QED
        BY <1>1, <2>3, <4>1, SubSeqOfConcat1 DEF Text
    <3>. QED
      BY <3>1, <3>2
  <2>6. Slice(new, s) = Slice(text, s)
    BY <2>4, <2>5 DEF Slice
  <2>7. s.end <= Len(new)
    BY <1>2, <1>3, <1>4, <2>2
  <2>. QED
    BY <2>1, <2>2, <2>6, <2>7
<1>7. ASSUME NEW s \in moved
      PROVE  \E r \in spans :
               /\ s = [start |-> r.start + n, end |-> r.end + n, text |-> r.text]
               /\ r.start \in Nat /\ r.end \in Nat /\ r.text \in Text
               /\ s.start = r.start + n /\ s.end = r.end + n /\ s.text = r.text
               /\ s \in [start : Nat, end : Nat, text : Text] /\ s.start < s.end
               /\ n <= s.start /\ s.end <= Len(new) /\ Trim(Slice(new, s)) = s.text
  <2>1. PICK r \in spans : s = [start |-> r.start + n, end |-> r.end + n, text |-> r.text]
    BY DEF Shifted
  <2>2. /\ r \in [start : Nat, end : Nat, text : Text] /\ r.end <= Len(t) /\ r.start < r.end
        /\ Trim(Slice(t, r)) = r.text
    BY DEF Placed
  <2>3. r.start \in Nat /\ r.end \in Nat /\ r.text \in Text
    BY <2>2
  <2>4. s.start = r.start + n /\ s.end = r.end + n /\ s.text = r.text
    BY <2>1
  <2>5. /\ s.start + 1 \in n + 1 .. n + Len(t) /\ s.end \in n + 1 .. n + Len(t)
        /\ (s.start + 1) - n = r.start + 1 /\ s.end - n = r.end
    BY <1>2, <1>3, <2>2, <2>3, <2>4
  <2>6. SubSeq(new, s.start + 1, s.end) = SubSeq(t, (s.start + 1) - n, s.end - n)
    <3>1. before \in Seq({NL, BL} \cup Chars) /\ t \in Seq({NL, BL} \cup Chars)
      BY <1>3 DEF Text
    <3>2. \A i, j : i \in n + 1 .. n + Len(t) /\ j \in n + 1 .. n + Len(t)
                      => SubSeq(new, i, j) = SubSeq(t, i - n, j - n)
      BY <3>1, SubSeqOfConcat2
    <3>. HIDE DEF n, new
    <3>3. PICK i, j : i = s.start + 1 /\ j = s.end
      OBVIOUS
    <3>4. i \in n + 1 .. n + Len(t) /\ j \in n + 1 .. n + Len(t)
      BY <2>5, <3>3
    <3>5. SubSeq(new, i, j) = SubSeq(t, i - n, j - n)
      BY <3>2, <3>4
    <3>. QED
      BY <3>3, <3>5
  <2>7. Trim(Slice(new, s)) = s.text
    BY <2>2, <2>4, <2>5, <2>6 DEF Slice
  <2>8. s \in [start : Nat, end : Nat, text : Text]
    <3>1. r.start + n \in Nat /\ r.end + n \in Nat
      BY <1>3, <2>3
    <3>. QED
      BY <2>1, <2>3, <3>1
  <2>9. s.start < s.end /\ n <= s.start /\ s.end <= Len(new)
    BY <1>2, <1>3, <1>4, <2>2, <2>3, <2>4
  <2>. QED
    BY <2>1, <2>3, <2>4, <2>7, <2>8, <2>9
<1>8. ASSUME NEW s \in doc.spans \cup moved, NEW r \in doc.spans \cup moved, s # r
      PROVE  s.end <= r.start \/ r.end <= s.start
  <2>1. CASE s \in doc.spans /\ r \in doc.spans
    BY <1>8, <2>1 DEF Placed
  <2>2. ASSUME NEW x \in doc.spans, NEW y \in moved PROVE x.end <= y.start
    <3>1. x.end \in Nat /\ x.end <= n
      BY <1>6
    <3>2. y.start \in Nat /\ n <= y.start
      BY <1>7
    <3>. QED
      BY <1>3, <3>1, <3>2
  <2>3. CASE s \in moved /\ r \in moved
    <3>1. PICK x \in spans : s = [start |-> x.start + n, end |-> x.end + n, text |-> x.text]
                             /\ x.start \in Nat /\ x.end \in Nat /\ s.start = x.start + n /\ s.end = x.end + n
      BY <1>7, <2>3
    <3>2. PICK y \in spans : r = [start |-> y.start + n, end |-> y.end + n, text |-> y.text]
                             /\ y.start \in Nat /\ y.end \in Nat /\ r.start = y.start + n /\ r.end = y.end + n
      BY <1>7, <2>3
    <3>3. x # y
      BY <1>8, <3>1, <3>2
    <3>4. x.end <= y.start \/ y.end <= x.start
      BY <3>3 DEF Placed
    <3>. QED
      BY <1>3, <3>1, <3>2, <3>4
  <2>. QED
    BY <2>1, <2>2, <2>3
<1>9. ASSUME NEW i \in Inked(new) PROVE \E s \in doc.spans \cup moved : s.start < i /\ i <= s.end
  <2>1. i \in 1 .. n + Len(t) /\ ~White(new[i])
    BY <1>4 DEF Inked
  <2>2. CASE i <= n
    <3>1. i \in 1 .. n /\ new[i] = before[i] /\ before[i] # NL
      BY <1>3, <1>4, <2>1, <2>2 DEF White
    <3>2. i \in 1 .. Len(text) /\ new[i] = text[i]
      BY <1>2, <1>3, <3>1
    <3>3. i \in Inked(text)
      BY <2>1, <3>2 DEF Inked
    <3>. QED
      BY <3>3 DEF Placed
  <2>3. CASE n < i
    <3>1. i - n \in 1 .. Len(t) /\ new[i] = t[i - n]
      BY <1>2, <1>3, <1>4, <2>1, <2>3
    <3>2. i - n \in Inked(t)
      BY <2>1, <3>1 DEF Inked
    <3>3. PICK r \in spans : r.start < i - n /\ i - n <= r.end
      BY <3>2 DEF Placed
    <3>4. r.start \in Nat /\ r.end \in Nat
      BY DEF Placed
    <3> DEFINE s == [start |-> r.start + n, end |-> r.end + n, text |-> r.text]
    <3>5. s \in moved
      BY DEF Shifted
    <3>6. r.start + n < i /\ i <= r.end + n
      BY <1>3, <2>1, <3>3, <3>4
    <3>. QED
      BY <3>5, <3>6
  <2>. QED
    BY <1>3, <2>1, <2>2, <2>3
<1> HIDE DEF n, new, moved
<1>10. doc.spans \cup moved \subseteq [start : Nat, end : Nat, text : Text]
  BY <1>6, <1>7
<1>11. \A s \in doc.spans \cup moved :
          s.end <= Len(new) /\ s.start < s.end /\ Trim(Slice(new, s)) = s.text
  BY <1>6, <1>7
<1>12. Placed(new, doc.spans \cup moved)
  BY <1>8, <1>9, <1>10, <1>11 DEF Placed
<1>. QED
  BY <1>4, <1>5, <1>12

\* A text that starts and ends with ink is one span.
LEMMA WholePlaced ==
    ASSUME NEW t \in Text, Trim(t) = t, t # <<>>
    PROVE  Placed(t, {Whole(t)})
<1>1. Len(t) \in Nat /\ Inked(t) \subseteq 1 .. Len(t) /\ Len(t) # 0
  BY TrimIs, EmptySeq DEF Text
<1>2. Slice(t, Whole(t)) = t
  BY SubSeqFull DEF Slice, Whole, Text
<1>3. Whole(t) \in [start : Nat, end : Nat, text : Text]
  BY <1>1 DEF Whole
<1>4. Whole(t).end = Len(t) /\ Whole(t).start = 0 /\ Whole(t).text = t
  BY DEF Whole
<1>5. \A i \in Inked(t) : Whole(t).start < i /\ i <= Whole(t).end
  BY <1>1, <1>4
<1>. QED
  BY <1>1, <1>2, <1>3, <1>4, <1>5 DEF Placed

\* Between trimmed texts a gap leaves a trimmed text.
LEMMA JoinedTrimmed ==
    ASSUME NEW doc, doc.text \in Text, Trim(doc.text) = doc.text,
           NEW gap \in Seq({NL}), NEW t \in Text, Trim(t) = t, t # <<>>, NEW spans
    PROVE  Trim(Joined(doc, gap, t, spans).text) = Joined(doc, gap, t, spans).text
<1> DEFINE text == doc.text
           before == IF text = <<>> THEN <<>> ELSE text \o gap
           n == Len(before)
           new == before \o t
<1>1. text \in Text /\ gap \in Text /\ <<>> \in Text
  BY SeqMonotonic, EmptySeq DEF Text
<1>2. Joined(doc, gap, t, spans).text = new
  BY DEF Joined
<1>3. ASSUME NEW u \in Text, Trim(u) = u, u # <<>>
      PROVE  Len(u) \in Nat /\ 1 \in Inked(u) /\ Len(u) \in Inked(u)
  <2>1. Inked(u) # {} /\ Len(u) \in Nat
    BY <1>3, TrimIs
  <2>2. PICK p \in Inked(u), q \in Inked(u) : \A i \in Inked(u) : p <= i /\ i <= q
    BY <2>1, TrimIs
  <2>3. p \in 1 .. Len(u) /\ q \in 1 .. Len(u) /\ Len(u) = q - p + 1
    BY <1>3, <2>2, TrimIs
  <2>4. p = 1 /\ q = Len(u)
    BY <2>1, <2>3
  <2>. QED
    BY <2>1, <2>2, <2>4
<1>4. Len(t) \in Nat /\ 1 \in Inked(t) /\ Len(t) \in Inked(t) /\ Len(t) \in 1 .. Len(t)
  BY <1>3 DEF Inked
<1>5. /\ before \in Text /\ n \in Nat
      /\ n # 0 => 1 \in Inked(text) /\ before[1] = text[1]
  <2>1. CASE text = <<>>
    <3>1. before = <<>> /\ Len(<<>>) = 0
      BY <2>1
    <3>. HIDE DEF before
    <3>. QED
      BY <1>1, <3>1
  <2>2. CASE text # <<>>
    <3>1. before = text \o gap
      BY <2>2
    <3>2. Len(text) \in Nat /\ 1 \in Inked(text) /\ Len(gap) \in Nat /\ 1 \in 1 .. Len(text)
      BY <1>1, <1>3, <2>2, TrimIs DEF Inked
    <3>3. /\ text \o gap \in Text /\ Len(text \o gap) = Len(text) + Len(gap)
          /\ \A i \in 1 .. Len(text) + Len(gap) :
                (text \o gap)[i] = IF i <= Len(text) THEN text[i] ELSE gap[i - Len(text)]
      <4>. HIDE DEF text
      <4>. QED
        BY <1>1, ConcatProperties DEF Text
    <3>4. 1 \in 1 .. Len(text) + Len(gap) /\ 1 <= Len(text)
      BY <3>2
    <3>. HIDE DEF before, text
    <3>. QED
      BY <3>1, <3>2, <3>3, <3>4
  <2>. QED
    BY <2>1, <2>2
<1> HIDE DEF before
<1>6. /\ new \in Text /\ Len(new) = n + Len(t)
      /\ \A i \in 1 .. n + Len(t) : new[i] = IF i <= n THEN before[i] ELSE t[i - n]
  BY <1>5, ConcatProperties DEF Text
<1>7. 1 \in Inked(new)
  <2>1. CASE n = 0
    <3>1. 1 \in 1 .. n + Len(t) /\ new[1] = t[1]
      BY <1>4, <1>6, <2>1
    <3>. QED
      BY <1>4, <1>6, <3>1 DEF Inked
  <2>2. CASE n # 0
    <3>1. 1 \in 1 .. n + Len(t) /\ new[1] = text[1]
      BY <1>4, <1>5, <1>6, <2>2
    <3>. QED
      BY <1>5, <1>6, <2>2, <3>1 DEF Inked
  <2>. QED
    BY <2>1, <2>2
<1>8. Len(new) \in Inked(new)
  <2>1. n + Len(t) \in 1 .. n + Len(t) /\ ~(n + Len(t) <= n) /\ n + Len(t) - n = Len(t)
    BY <1>4, <1>5
  <2>2. new[n + Len(t)] = t[Len(t)]
    BY <1>6, <2>1
  <2>. QED
    BY <1>4, <1>6, <2>1, <2>2 DEF Inked
<1>9. \A i \in Inked(new) : 1 <= i /\ i <= Len(new)
  <2>1. Len(new) \in Nat /\ Inked(new) \subseteq 1 .. Len(new)
    BY <1>6, TrimIs
  <2>. QED
    BY <2>1
<1>10. Trim(new) = SubSeq(new, 1, Len(new))
  <2>1. new \in Text
    BY <1>6
  <2> DEFINE l == Len(new)
  <2>2. l \in Inked(new) /\ \A i \in Inked(new) : 1 <= i /\ i <= l
    BY <1>8, <1>9
  <2>. HIDE DEF new, n, text, l
  <2>3. Trim(new) = SubSeq(new, 1, l)
    BY <1>7, <2>1, <2>2, TrimIs
  <2>. QED
    BY <2>3 DEF l
<1>. QED
  BY <1>2, <1>6, <1>10, SubSeqFull DEF Text

----------------------------------------------------------------------------
\* The document so far has its spans in place, and the text is trimmed unless it
\* was taken as it is.
SpansTyped ==
    extraction \in [kind : {"pdf", "docx", "html", "txt"}, parts : Nat,
                    doc : [text : Text, spans : SUBSET [start : Nat, end : Nat, text : Text]],
                    done : BOOLEAN]

SpansInv ==
    /\ SpansTyped
    /\ Placed(extraction.doc.text, extraction.doc.spans)
    /\ extraction.kind # "txt" => Trim(extraction.doc.text) = extraction.doc.text

LEMMA TextsAre == ASSUME NEW t \in Texts PROVE t \in Text
<1>1. PICK m \in 0 .. MaxPart : t \in [1 .. m -> {NL, BL} \cup Chars]
  BY DEF Texts, SeqOf
<1>2. m \in Nat
  BY SpansAssumption
<1>. QED
  BY <1>1, <1>2 DEF Text

LEMMA EmptyPlaced == Empty.text \in Text /\ Placed(Empty.text, Empty.spans) /\ Trim(Empty.text) = Empty.text
<1>1. Empty.text = <<>> /\ Empty.spans = {} /\ Len(<<>>) = 0 /\ <<>> \in Text
  BY EmptySeq DEF Empty, Text
<1>2. Inked(<<>>) = {}
  BY <1>1 DEF Inked
<1>. QED
  BY <1>1, <1>2 DEF Placed, Trim

LEMMA SpansInitInv == SpansInit => SpansInv
<1> SUFFICES ASSUME SpansInit PROVE SpansInv
  OBVIOUS
<1>1. PICK kind \in {"pdf", "docx", "html", "txt"} :
        extraction = [kind |-> kind, parts |-> 0, doc |-> Empty, done |-> FALSE]
  BY DEF SpansInit
<1>2. Empty \in [text : Text, spans : SUBSET [start : Nat, end : Nat, text : Text]]
  BY EmptyPlaced DEF Empty
<1>3. SpansTyped
  BY <1>1, <1>2 DEF SpansTyped
<1>4. extraction.doc = Empty
  BY <1>1
<1>. QED
  BY <1>3, <1>4, EmptyPlaced DEF SpansInv

LEMMA KeepInv ==
    ASSUME SpansInv, NEW doc, Keep(doc),
           doc \in [text : Text, spans : SUBSET [start : Nat, end : Nat, text : Text]],
           Placed(doc.text, doc.spans), extraction.kind # "txt" => Trim(doc.text) = doc.text
    PROVE  SpansInv'
<1>1. /\ extraction' = [extraction EXCEPT !.parts = @ + 1, !.doc = doc]
      /\ SpansTyped
  BY DEF Keep, SpansInv
<1>2. extraction.parts + 1 \in Nat
  BY <1>1 DEF SpansTyped
<1>3. SpansTyped' /\ extraction'.doc = doc /\ extraction'.kind = extraction.kind
  BY <1>1, <1>2 DEF SpansTyped
<1>. QED
  BY <1>3 DEF SpansInv

LEMMA DocOf ==
    ASSUME NEW text \in Text, NEW spans, Placed(text, spans)
    PROVE  [text |-> text, spans |-> spans] \in [text : Text, spans : SUBSET [start : Nat, end : Nat, text : Text]]
BY DEF Placed

LEMMA JoinedInv ==
    ASSUME SpansInv, NEW gap \in Seq({NL}), NEW t \in Text, t # <<>>, Trim(t) = t,
           NEW spans, Placed(t, spans), Keep(Joined(extraction.doc, gap, t, spans))
    PROVE  SpansInv'
<1> DEFINE doc == extraction.doc
           next == Joined(doc, gap, t, spans)
<1>1. doc.text \in Text /\ Placed(doc.text, doc.spans) /\ extraction.kind # "txt" => Trim(doc.text) = doc.text
  BY DEF SpansInv, SpansTyped
<1>a. doc.text \in Text /\ Placed(doc.text, doc.spans)
  BY DEF SpansInv, SpansTyped
<1>2. next.text \in Text /\ Placed(next.text, next.spans)
  <2>. HIDE DEF doc
  <2>. QED
    BY <1>a, JoinedPlaced
<1>3. extraction.kind # "txt" => Trim(next.text) = next.text
  <2>. HIDE DEF doc
  <2>. QED
    BY <1>1, <1>a, JoinedTrimmed
<1>4. next = [text |-> next.text, spans |-> next.spans]
  BY DEF Joined
<1>5. next \in [text : Text, spans : SUBSET [start : Nat, end : Nat, text : Text]]
  <2>. HIDE DEF next
  <2>. QED
    BY <1>2, <1>4, DocOf
<1>. QED
  BY <1>2, <1>3, <1>5, KeepInv

LEMMA SpansStepInv == SpansInv /\ [SpansNext]_esVars => SpansInv'
<1> SUFFICES ASSUME SpansInv, [SpansNext]_esVars PROVE SpansInv'
  OBVIOUS
<1>0. extraction.doc \in [text : Text, spans : SUBSET [start : Nat, end : Nat, text : Text]]
      /\ Placed(extraction.doc.text, extraction.doc.spans)
  BY DEF SpansInv, SpansTyped
<1>a. ASSUME NEW part \in Texts PROVE Trim(part) \in Text /\ Trim(Trim(part)) = Trim(part) /\ part \in Text
  BY TextsAre, TrimIs, TrimTwice
<1>b. <<NL>> \in Seq({NL}) /\ <<NL, NL>> \in Seq({NL})
  OBVIOUS
<1>c. ASSUME Keep(extraction.doc) PROVE SpansInv'
  BY <1>0, <1>c, KeepInv DEF SpansInv
<1>1. ASSUME NEW part \in Texts, ReadPage(part) PROVE SpansInv'
  <2>1. CASE Trim(part) = <<>>
    BY <1>1, <1>c, <2>1 DEF ReadPage
  <2>2. CASE Trim(part) # <<>>
    <3>1. Keep(Joined(extraction.doc, <<NL>>, Trim(part), TextSpans(Trim(part))))
      BY <1>1, <2>2 DEF ReadPage
    <3>2. Placed(Trim(part), TextSpans(Trim(part)))
      BY <1>a, TextSpansPlaced
    <3>. QED
      BY <1>a, <1>b, <2>2, <3>1, <3>2, JoinedInv
  <2>. QED
    BY <2>1, <2>2
<1>2. ASSUME NEW part \in Texts, ReadParagraph(part) PROVE SpansInv'
  <2>1. CASE Trim(part) = <<>>
    BY <1>2, <1>c, <2>1 DEF ReadParagraph
  <2>2. CASE Trim(part) # <<>>
    <3>1. Keep(Joined(extraction.doc, <<NL, NL>>, Trim(part), {Whole(Trim(part))}))
      BY <1>2, <2>2 DEF ReadParagraph
    <3>2. Placed(Trim(part), {Whole(Trim(part))})
      BY <1>a, <2>2, WholePlaced
    <3>. QED
      BY <1>a, <1>b, <2>2, <3>1, <3>2, JoinedInv
  <2>. QED
    BY <2>1, <2>2
<1>3. ASSUME NEW part \in Texts, ReadText(part) PROVE SpansInv'
  <2> DEFINE doc == [text |-> part, spans |-> TextSpans(part)]
  <2>1. Keep(doc) /\ extraction.kind = "txt"
    BY <1>3 DEF ReadText, Reading
  <2>2. Placed(part, TextSpans(part)) /\ part \in Text
    BY <1>a, TextSpansPlaced
  <2>3. doc \in [text : Text, spans : SUBSET [start : Nat, end : Nat, text : Text]]
    BY <2>2, DocOf
  <2>4. doc.text = part /\ doc.spans = TextSpans(part)
    BY <2>1
  <2>. HIDE DEF doc
  <2>. QED
    BY <2>1, <2>2, <2>3, <2>4, KeepInv
<1>4. ASSUME Finish PROVE SpansInv'
  <2>1. /\ extraction' = [extraction EXCEPT !.done = TRUE, !.doc.text =
                            IF extraction.kind \in {"pdf", "html"} THEN Trim(@) ELSE @]
        /\ SpansTyped
        /\ extraction.kind # "txt" => Trim(extraction.doc.text) = extraction.doc.text
    BY <1>4 DEF Finish, SpansInv
  <2>2. extraction' = [extraction EXCEPT !.done = TRUE]
    BY <2>1 DEF SpansTyped
  <2>3. SpansTyped' /\ extraction'.doc = extraction.doc /\ extraction'.kind = extraction.kind
    BY <2>1, <2>2 DEF SpansTyped
  <2>. QED
    BY <2>3 DEF SpansInv
<1>5. CASE UNCHANGED esVars
  BY <1>5 DEF esVars, SpansInv, SpansTyped
<1>. QED
  BY <1>1, <1>2, <1>3, <1>4, <1>5 DEF SpansNext

LEMMA SpansInvariance == SpansSpec => []SpansInv
BY SpansInitInv, SpansStepInv, PTL DEF SpansSpec

\* Extraction: the span of a citation lies where its text is, in a document of any
\* length, and no text is out of reach of the spans.
THEOREM SpansAreInPlace == SpansSpec => []SpansPointIntoText
<1>1. SpansInv => SpansPointIntoText
  BY DEF SpansInv, Placed, SpansPointIntoText
<1>. QED
  BY <1>1, SpansInvariance, PTL
============================================================================
