-------------------------- MODULE StrategyMarket --------------------------
(***************************************************************************)
(* One item of the strategy market (service/strategy_market): immutable    *)
(* versions, their validation, publication and withdrawal, evidence of     *)
(* backtests and its review, private copies.  Every operation is one       *)
(* transaction that first reserves (owner, operation, key) and then locks  *)
(* the item; an answer can get lost, and the request is sent again.        *)
(***************************************************************************)
EXTENDS Integers, Sequences

CONSTANTS
    MaxKeys,       \* bound: Idempotency-Keys, each of one request of one user
    MkInstruments, \* instruments a version is validated on
    MaxVersions,   \* bound: versions of the item
    MaxEvidence    \* bound: pieces of evidence

VARIABLES
    mitem,   \* finance_strategy_market_items
    mver,    \* finance_strategy_market_versions
    evid,    \* finance_strategy_market_evidence
    mtrail,  \* finance_strategy_market_audit
    mcopies, \* drafts created by copies
    mreq,    \* the request each key stands for
    mstored, \* finance_strategy_idempotency: the response snapshot
    mgot     \* the answer the client has

mkVars == <<mitem, mver, evid, mtrail, mcopies, mreq, mstored, mgot>>

MkKeys == 1 .. MaxKeys
NoRequest == [op |-> "none"]
Unanswered == [object |-> "none", no |-> 0]

MarketInit ==
    /\ mitem = [status |-> "none", rev |-> 0, cur |-> 0]
    /\ mver = <<>> /\ evid = <<>> /\ mtrail = <<>> /\ mcopies = <<>>
    /\ mreq = [k \in MkKeys |-> NoRequest]
    /\ mstored = [k \in MkKeys |-> Unanswered]
    /\ mgot = [k \in MkKeys |-> Unanswered]

----------------------------------------------------------------------------
(* What a client can ask, with the revision it has seen.                   *)
Requests ==
    LET Decision(op, S) == {[op |-> op, rev |-> mitem.rev, no |-> n] : n \in S} IN
    {[op |-> "create_item"]}
      \cup Decision("create_version", {0}) \cup Decision("withdraw", {0})
      \cup Decision("publish", DOMAIN mver)
      \cup {[op |-> op, rev |-> mitem.rev, no |-> n, inst |-> i] :
               op \in {"validate", "import"}, n \in DOMAIN mver, i \in MkInstruments}
      \cup {[op |-> "review", rev |-> mitem.rev, no |-> n, decision |-> d] :
               n \in DOMAIN evid, d \in {"approved", "rejected", "revoked"}}
      \cup {[op |-> "copy", no |-> n] : n \in DOMAIN mver}

Ask(k, req) ==
    /\ mreq[k] = NoRequest /\ \A n \in 1 .. k - 1 : mreq[n] # NoRequest
    /\ mreq' = [mreq EXCEPT ![k] = req]
    /\ UNCHANGED <<mitem, mver, evid, mtrail, mcopies, mstored, mgot>>

----------------------------------------------------------------------------
(* idempotent: a key that has a snapshot is answered with it; otherwise    *)
(* the mutation and the snapshot are one transaction.                      *)
ReplayedNever(k) == FALSE
Replayed(k) == mstored[k] # Unanswered

Fresh(k, op) == mreq[k].op = op /\ ~Replayed(k)

Answer(k, object, no) ==
    /\ mstored' = [mstored EXCEPT ![k] = [object |-> object, no |-> no]]
    /\ mgot' \in {mgot, [mgot EXCEPT ![k] = [object |-> object, no |-> no]]}
    /\ UNCHANGED mreq

Replay(k) ==
    /\ mreq[k] # NoRequest /\ Replayed(k)
    /\ mgot' = [mgot EXCEPT ![k] = mstored[k]]
    /\ UNCHANGED <<mitem, mver, evid, mtrail, mcopies, mreq, mstored>>

(* The decision was taken on the revision that the item still has.         *)
SeenIsCurrent(k) == mreq[k].rev = mitem.rev

(* audit, and the revision it records *)
Audited(k, item) ==
    /\ mitem' = [item EXCEPT !.rev = mitem.rev + 1]
    /\ mtrail' = Append(mtrail, [key |-> k, before |-> mitem.rev, after |-> mitem.rev + 1])

NewVersion == [val |-> "pending", inst |-> "none"]

CreateItem(k) ==
    /\ Fresh(k, "create_item") /\ mitem.status = "none"
    /\ Audited(k, [mitem EXCEPT !.status = "draft"])
    /\ mver' = <<NewVersion>>
    /\ Answer(k, "item", 1)
    /\ UNCHANGED <<evid, mcopies>>

CreateVersion(k) ==
    /\ Fresh(k, "create_version") /\ mitem.status \in {"draft", "published"} /\ SeenIsCurrent(k)
    /\ Len(mver) < MaxVersions
    /\ Audited(k, mitem)
    /\ mver' = Append(mver, NewVersion)
    /\ Answer(k, "version", Len(mver) + 1)
    /\ UNCHANGED <<evid, mcopies>>

(* buildValidationReport: the report names the instrument; the compiler    *)
(* may refuse the rule on it.  A version can be validated again.           *)
Validate(k) ==
    /\ Fresh(k, "validate") /\ mitem.status # "withdrawn" /\ SeenIsCurrent(k)
    /\ \E val \in {"passed", "failed"} :
          mver' = [mver EXCEPT ![mreq[k].no] = [val |-> val, inst |-> mreq[k].inst]]
    /\ Audited(k, mitem)
    /\ Answer(k, "validated", mreq[k].no)
    /\ UNCHANGED <<evid, mcopies>>

PublishVersion(k) ==
    /\ Fresh(k, "publish") /\ mitem.status # "withdrawn" /\ SeenIsCurrent(k)
    /\ mver[mreq[k].no].val = "passed"
    /\ Audited(k, [mitem EXCEPT !.status = "published", !.cur = mreq[k].no])
    /\ Answer(k, "published", mreq[k].no)
    /\ UNCHANGED <<mver, evid, mcopies>>

Withdraw(k) ==
    /\ Fresh(k, "withdraw") /\ mitem.status = "published" /\ SeenIsCurrent(k)
    /\ Audited(k, [mitem EXCEPT !.status = "withdrawn"])
    /\ Answer(k, "withdrawn", mitem.rev)
    /\ UNCHANGED <<mver, evid, mcopies>>

(* The run is of the validated rule and of the instrument of the report.   *)
ImportEvidence(k) ==
    /\ Fresh(k, "import") /\ mitem.status # "withdrawn" /\ SeenIsCurrent(k)
    /\ mver[mreq[k].no] = [val |-> "passed", inst |-> mreq[k].inst]
    /\ Len(evid) < MaxEvidence
    /\ Audited(k, mitem)
    /\ evid' = Append(evid, [ver |-> mreq[k].no, inst |-> mreq[k].inst, status |-> "pending"])
    /\ Answer(k, "evidence", Len(evid) + 1)
    /\ UNCHANGED <<mver, mcopies>>

Decidable(status, decision) == status = IF decision = "revoked" THEN "approved" ELSE "pending"

(* The status of the item is not asked.  requireDisclosable holds of an    *)
(* imported run that has a result hash.                                    *)
ReviewEvidence(k) ==
    /\ Fresh(k, "review") /\ SeenIsCurrent(k)
    /\ Decidable(evid[mreq[k].no].status, mreq[k].decision)
    /\ evid' = [evid EXCEPT ![mreq[k].no].status = mreq[k].decision]
    /\ Audited(k, mitem)
    /\ Answer(k, "reviewed", mreq[k].no)
    /\ UNCHANGED <<mver, mcopies>>

(* copyable *)
Copyable(n) == mitem.status = "published" /\ mitem.cur = n /\ mver[n].val = "passed"

Copy(k) ==
    /\ Fresh(k, "copy") /\ Copyable(mreq[k].no)
    /\ mcopies' = Append(mcopies, [key |-> k, ver |-> mreq[k].no])
    /\ Answer(k, "draft", Len(mcopies) + 1)
    /\ UNCHANGED <<mitem, mver, evid, mtrail>>

(* EvidenceSection *)
Disclosed == {e \in DOMAIN evid : /\ mitem.status = "published"
                                  /\ evid[e].status = "approved" /\ evid[e].ver = mitem.cur}

MarketNext ==
    \E k \in MkKeys :
        \/ \E req \in Requests : Ask(k, req)
        \/ Replay(k) \/ CreateItem(k) \/ CreateVersion(k) \/ Validate(k) \/ PublishVersion(k)
        \/ Withdraw(k) \/ ImportEvidence(k) \/ ReviewEvidence(k) \/ Copy(k)

MarketSpec == MarketInit /\ [][MarketNext]_mkVars

----------------------------------------------------------------------------
(* A request is answered once and for all, whatever gets lost and is sent  *)
(* again: no key creates a second copy, and the audit trail accounts, key  *)
(* by key, for every revision of the item.                                 *)
EachKeyOnce ==
    /\ \A k \in MkKeys : mgot[k] # Unanswered => mgot[k] = mstored[k]
    /\ \A i, j \in DOMAIN mcopies : mcopies[i].key = mcopies[j].key => i = j
    /\ Len(mtrail) = mitem.rev
    /\ \A i, j \in DOMAIN mtrail :
          /\ mtrail[i].before = i - 1 /\ mtrail[i].after = i
          /\ mtrail[i].key = mtrail[j].key => i = j
============================================================================
