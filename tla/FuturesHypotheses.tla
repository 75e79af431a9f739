------------------------- MODULE FuturesHypotheses -------------------------
(***************************************************************************)
(* A tracked hypothesis of the futures module: what its owner does         *)
(* (PatchHypothesis, CreateCheck, DeleteHypothesis of domain_hypotheses.go *)
(* over hypotheses.go) and what the maintenance of each server does to it  *)
(* every 30 seconds (ExpireDueHypotheses, EvaluateDueConditions of         *)
(* maintenance.go).  The owner works under the lock of the row; the        *)
(* maintenance reads the row first and writes later, "if the version is    *)
(* still the one I read".  Checks are numbered from 1 for each version of  *)
(* the hypothesis and each of its conditions.                              *)
(***************************************************************************)
EXTENDS Integers, FiniteSets, FiniteSetsExt

CONSTANTS
    Conditions, \* conditions of the hypothesis
    Manual,     \* those the owner registers himself
    Servers,    \* servers running the maintenance
    MaxHypVersion, MaxCheck \* bounds: versions, checks of a condition at a version

VARIABLES
    hyp,      \* the row of futures_hypotheses
    checks,   \* futures_checks
    data,     \* the result the observations give for each condition, and if they are new
    upkeep,   \* what the maintenance of each server has read
    screen,   \* the row and the checks the owner has on the screen
    unseen    \* checks that asked for a review and that no review has seen yet

fhVars == <<hyp, checks, data, upkeep, screen, unseen>>

Lives == {"draft", "active", "paused", "expired", "closed"}
Results == {"met", "not_met"}

HypothesisInit ==
    /\ hyp = [life |-> "draft", version |-> 1, due |-> FALSE, needs |-> FALSE, reviewed |-> 0, deleted |-> FALSE]
    /\ checks = {}
    /\ data = [c \in Conditions |-> [result |-> "met", new |-> TRUE]]
    /\ upkeep = [s \in Servers |-> [pc |-> "idle", version |-> 0]]
    /\ screen = [version |-> 1, checks |-> {}]
    /\ unseen = {}

----------------------------------------------------------------------------
(* The owner *)

Look ==
    /\ ~hyp.deleted
    /\ screen # [version |-> hyp.version, checks |-> checks]
    /\ screen' = [version |-> hyp.version, checks |-> checks]
    /\ UNCHANGED <<hyp, checks, data, upkeep, unseen>>

(* The version on the screen is the expected_version of every change. *)
Current == ~hyp.deleted /\ screen.version = hyp.version /\ hyp.version < MaxHypVersion

Patched(h) == hyp' = [h EXCEPT !.version = hyp.version + 1]

(* "edit" asks for a later end, whatever the lifecycle *)
Edit ==
    /\ Current
    /\ Patched([hyp EXCEPT !.due = FALSE])
    /\ UNCHANGED <<checks, data, upkeep, screen, unseen>>

(* TransitionHypothesis *)
Transitions ==
    [activate |-> {"draft"}, pause |-> {"active"}, resume |-> {"paused"}, close |-> Lives \ {"closed"}]
Reached == [activate |-> "active", pause |-> "paused", resume |-> "active", close |-> "closed"]

Transition(action) ==
    /\ Current
    /\ hyp.life \in Transitions[action]
    /\ Patched([hyp EXCEPT !.life = Reached[action]])
    /\ UNCHANGED <<checks, data, upkeep, screen, unseen>>

(* The check version a review may name: the greatest number of any check   *)
(* of any condition and any version of the hypothesis.                     *)
LatestOf(cs) == IF cs = {} THEN 0 ELSE Max({k.version : k \in cs})

Reviewable ==
    /\ Current
    /\ checks # {} /\ LatestOf(screen.checks) = LatestOf(checks)
    /\ LatestOf(checks) >= hyp.reviewed

Decide ==
    /\ Reviewable
    /\ Patched([hyp EXCEPT !.reviewed = LatestOf(checks)])
    /\ UNCHANGED <<checks, data, upkeep, screen, unseen>>

Acknowledge ==
    /\ Reviewable
    /\ Patched([hyp EXCEPT !.reviewed = LatestOf(checks), !.needs = FALSE])
    /\ unseen' = unseen \ screen.checks
    /\ UNCHANGED <<checks, data, upkeep, screen>>

ChecksOf(c, v) == {k \in checks : k.cond = c /\ k.of = v}

NewCheck(c, v, result) ==
    [cond |-> c, of |-> v, version |-> LatestOf(ChecksOf(c, v)) + 1, result |-> result]

(* CreateCheck *)
CreateCheck(c) ==
    /\ ~hyp.deleted /\ screen.version = hyp.version
    /\ c \in Manual
    /\ Cardinality(ChecksOf(c, hyp.version)) < MaxCheck
    /\ \E result \in Results :
          LET k == NewCheck(c, hyp.version, result) IN
              /\ checks' = checks \cup {k}
              /\ unseen' = unseen \cup {k}
    /\ hyp' = [hyp EXCEPT !.needs = TRUE]
    /\ UNCHANGED <<data, upkeep, screen>>

DeleteHypothesis ==
    /\ ~hyp.deleted
    /\ hyp' = [hyp EXCEPT !.deleted = TRUE]
    /\ UNCHANGED <<checks, data, upkeep, screen, unseen>>

----------------------------------------------------------------------------
(* Time passes, observations arrive. *)

EndPasses ==
    /\ ~hyp.due
    /\ hyp' = [hyp EXCEPT !.due = TRUE]
    /\ UNCHANGED <<checks, data, upkeep, screen, unseen>>

Observe(c) ==
    /\ c \notin Manual
    /\ ~data[c].new
    /\ \E result \in Results : data' = [data EXCEPT ![c] = [result |-> result, new |-> TRUE]]
    /\ UNCHANGED <<hyp, checks, upkeep, screen, unseen>>

----------------------------------------------------------------------------
(* The maintenance *)

Tracked == ~hyp.deleted /\ hyp.life \in {"active", "paused"}

ReadDue(s) ==
    /\ upkeep[s].pc = "idle" /\ Tracked /\ hyp.due
    /\ upkeep' = [upkeep EXCEPT ![s] = [pc |-> "expire", version |-> hyp.version]]
    /\ UNCHANGED <<hyp, checks, data, screen, unseen>>

AnyVersion(s) == TRUE

AsRead(s) == hyp.version = upkeep[s].version

(* The notification is written in any case. *)
ExpireDueHypotheses(s) ==
    /\ upkeep[s].pc = "expire"
    /\ hyp' = IF AsRead(s) THEN [hyp EXCEPT !.life = "expired", !.needs = TRUE] ELSE hyp
    /\ upkeep' = [upkeep EXCEPT ![s].pc = "idle"]
    /\ UNCHANGED <<checks, data, screen, unseen>>

ReadTracked(s) ==
    /\ upkeep[s].pc = "idle" /\ Tracked
    /\ upkeep' = [upkeep EXCEPT ![s] = [pc |-> "check", version |-> hyp.version]]
    /\ UNCHANGED <<hyp, checks, data, screen, unseen>>

LatestResult(c, v) ==
    LET cs == ChecksOf(c, v)
    IN  IF cs = {} THEN "none" ELSE (CHOOSE k \in cs : k.version = LatestOf(cs)).result

Evaluated(c) == IF c \in Manual THEN "unknown" ELSE data[c].result

(* A check for the version that was read.  A result unlike the last one of *)
(* that version, and so every first result of it, asks for a review, but   *)
(* only if the hypothesis is still at that version.  Reading the           *)
(* observations and the latest check, and inserting, are taken as one.     *)
EvaluateDueCondition(s, c) ==
    LET v == upkeep[s].version
        k == NewCheck(c, v, Evaluated(c))
        changed == LatestResult(c, v) # Evaluated(c)
    IN  /\ upkeep[s].pc = "check"
        /\ ChecksOf(c, v) = {} \/ (c \notin Manual /\ data[c].new)
        /\ Cardinality(ChecksOf(c, v)) < MaxCheck
        /\ checks' = checks \cup {k}
        /\ data' = [data EXCEPT ![c].new = FALSE]
        /\ unseen' = IF changed /\ AsRead(s) THEN unseen \cup {k} ELSE unseen
        /\ hyp' = IF changed /\ AsRead(s) THEN [hyp EXCEPT !.needs = TRUE] ELSE hyp
        /\ UNCHANGED <<upkeep, screen>>

(* The round is over, or the server stops in it. *)
EndRound(s) ==
    /\ upkeep[s].pc # "idle"
    /\ upkeep' = [upkeep EXCEPT ![s].pc = "idle"]
    /\ UNCHANGED <<hyp, checks, data, screen, unseen>>

HypothesisNext ==
    \/ Look \/ Edit \/ Decide \/ Acknowledge \/ DeleteHypothesis \/ EndPasses
    \/ \E action \in DOMAIN Transitions : Transition(action)
    \/ \E c \in Conditions : CreateCheck(c) \/ Observe(c)
    \/ \E s \in Servers :
          \/ ReadDue(s) \/ ExpireDueHypotheses(s) \/ ReadTracked(s) \/ EndRound(s)
          \/ \E c \in Conditions : EvaluateDueCondition(s, c)

HypothesisSpec == HypothesisInit /\ [][HypothesisNext]_fhVars

----------------------------------------------------------------------------
(* A hypothesis its owner has closed is never taken back by a maintenance  *)
(* round that had read it before.                                          *)
ClosedStaysClosed == [][hyp.life = "closed" => hyp'.life = "closed"]_fhVars

(* Nobody confirms a check that was not on the screen: the mark that asks  *)
(* for a review stays while there is one (stated by the design document;   *)
(* the number a review names is the same for checks of two conditions).    *)
UnseenAsksForReview == unseen # {} => hyp.needs
============================================================================
