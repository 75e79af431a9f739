---------------------------- MODULE IntelSpace ----------------------------
(***************************************************************************)
(* The data space of an intel demo session: replay steps and resets,       *)
(* subscriptions, mutes, notifications and their outbox                    *)
(* (service/intel/replay.go and service.go, the outbox of worker.go,       *)
(* handlers of api/v1/intel/api.go).  A request resolves its space, and    *)
(* with it the generation, before it does its work; a reset in between     *)
(* moves the generation.  Replay requests go through Idempotent: an entry  *)
(* that stays open for two minutes is taken over by the next caller.       *)
(***************************************************************************)
EXTENDS Integers, FiniteSets

CONSTANTS
    IsCalls,   \* requests in progress
    IsKeys,    \* Idempotency-Keys of replay requests
    ChangeSteps, \* steps of the fixture that make a new version of the event
    LastStep,  \* steps of the fixture
    MaxReplay  \* bound: replay versions

ASSUME SpaceAssumption == LastStep \in Nat /\ "none" \notin IsKeys

VARIABLES
    space,    \* finance_intel_namespaces
    body,     \* what each key asks for
    idem,     \* finance_intel_idempotency: none, open, stale, done
    icall,    \* requests
    sub,      \* generation of the request that subscribed, 0 without subscription
    mute,     \* the same of the mute
    notif,    \* finance_intel_notifications with their outbox rows
    advanced  \* times each key has moved the replay

isVars == <<space, body, idem, icall, sub, mute, notif, advanced>>

Idle == [pc |-> "idle", gen |-> 0, op |-> "none", key |-> "none"]
NoBody == [op |-> "none", ver |-> 0]

SpaceInit ==
    /\ space = [gen |-> 1, ver |-> 0, step |-> 0]
    /\ body = [k \in IsKeys |-> NoBody]
    /\ idem = [k \in IsKeys |-> "none"]
    /\ icall = [c \in IsCalls |-> Idle]
    /\ sub = 0 /\ mute = 0
    /\ notif = {}
    /\ advanced = [k \in IsKeys |-> 0]

----------------------------------------------------------------------------
(* scope(): the request resolves its session.  A key keeps its request.    *)
ResolveScope(c, op) ==
    /\ icall[c].pc = "idle"
    /\ icall' = [icall EXCEPT ![c] = [pc |-> "scoped", gen |-> space.gen, op |-> op, key |-> "none"]]
    /\ UNCHANGED <<space, body, idem, sub, mute, notif, advanced>>

ResolveReplay(c, op, k) ==
    /\ icall[c].pc = "idle"
    /\ body[k] = NoBody \/ body[k].op = op
    /\ body' = IF body[k] = NoBody THEN [body EXCEPT ![k] = [op |-> op, ver |-> space.ver]] ELSE body
    /\ icall' = [icall EXCEPT ![c] = [pc |-> "scoped", gen |-> space.gen, op |-> op, key |-> k]]
    /\ UNCHANGED <<space, idem, sub, mute, notif, advanced>>

End(c) == icall' = [icall EXCEPT ![c] = Idle]

AnyGeneration(c) == TRUE

(* assertGeneration, under the lock of the namespace                       *)
SameGeneration(c) == icall[c].gen = space.gen

Asks(c, ops) == icall[c].pc = "scoped" /\ icall[c].op \in ops /\ End(c)

AddWatchlist(c) ==
    /\ Asks(c, {"watch"})
    /\ sub' = IF SameGeneration(c) /\ sub = 0 THEN icall[c].gen ELSE sub
    /\ UNCHANGED <<space, body, idem, mute, notif, advanced>>

(* RemoveWatchlist asks for no generation and cancels what still waits.    *)
RemoveWatchlist(c) ==
    /\ Asks(c, {"unwatch"})
    /\ sub' = 0
    /\ notif' = {[n EXCEPT !.out = IF n.out = "pending" THEN "cancelled" ELSE n.out] : n \in notif}
    /\ UNCHANGED <<space, body, idem, mute, advanced>>

SetMute(c) ==
    /\ Asks(c, {"mute", "unmute"})
    /\ mute' = IF ~SameGeneration(c) THEN mute ELSE IF icall[c].op = "mute" THEN icall[c].gen ELSE 0
    /\ UNCHANGED <<space, body, idem, sub, notif, advanced>>

(* What has been ignored is not read afterwards. *)
PatchNotification(c) ==
    LET status == IF icall[c].op = "read" THEN "read" ELSE "ignored" IN
    /\ Asks(c, {"read", "ignore"})
    /\ \E n \in notif :
          notif' = IF SameGeneration(c) /\ ~(n.status = "ignored" /\ status = "read")
                     THEN (notif \ {n}) \cup {[n EXCEPT !.status = status]} ELSE notif
    /\ UNCHANGED <<space, body, idem, sub, mute, advanced>>

----------------------------------------------------------------------------
(* Idempotent: the entry is inserted, or found done (the answer is         *)
(* replayed), or found open (IN_PROGRESS), or open for two minutes and     *)
(* taken over.  Insert and look-up are taken as one.                       *)
OpenIdempotent(c) ==
    LET k == icall[c].key IN
    /\ icall[c].pc = "scoped" /\ icall[c].key # "none"
    /\ IF idem[k] \in {"none", "stale"}
         THEN /\ idem' = [idem EXCEPT ![k] = IF idem[k] = "none" THEN "open" ELSE idem[k]]
              /\ icall' = [icall EXCEPT ![c].pc = "run"]
         ELSE End(c) /\ UNCHANGED idem
    /\ UNCHANGED <<space, body, sub, mute, notif, advanced>>

TwoMinutesPass(k) ==
    /\ idem[k] = "open"
    /\ idem' = [idem EXCEPT ![k] = "stale"]
    /\ UNCHANGED <<space, body, icall, sub, mute, notif, advanced>>

(* expected_version, under the lock of the namespace                       *)
AsExpected(k) == body[k].ver = space.ver

Moved(k) == advanced' = [advanced EXCEPT ![k] = advanced[k] + 1]

(* A step that makes a version of the event notifies a subscriber who has  *)
(* not muted it: outbox row and notification in the same transaction.      *)
ReplayStep(c) ==
    LET k == icall[c].key
        told == space.step + 1 \in ChangeSteps /\ sub # 0 /\ mute = 0
    IN  /\ icall[c].pc = "run" /\ icall[c].op = "step"
        /\ AsExpected(k)
        /\ IF space.step = LastStep
             THEN UNCHANGED <<space, notif, advanced>>
             ELSE /\ space.ver < MaxReplay
                  /\ space' = [space EXCEPT !.step = space.step + 1, !.ver = space.ver + 1]
                  /\ notif' = IF told THEN notif \cup {[step |-> space.step + 1, gen |-> space.gen,
                                                       status |-> "unread", out |-> "pending"]}
                              ELSE notif
                  /\ Moved(k)
        /\ icall' = [icall EXCEPT ![c].pc = "ok"]
        /\ UNCHANGED <<body, idem, sub, mute>>

(* A reset deletes the space's rows, the idempotency entries included.     *)
ReplayReset(c) ==
    LET k == icall[c].key IN
    /\ icall[c].pc = "run" /\ icall[c].op = "reset"
    /\ AsExpected(k) /\ space.ver < MaxReplay
    /\ space' = [gen |-> space.gen + 1, ver |-> space.ver + 1, step |-> 0]
    /\ notif' = {} /\ sub' = 0 /\ mute' = 0
    /\ idem' = [q \in IsKeys |-> "none"]
    /\ Moved(k)
    /\ icall' = [icall EXCEPT ![c].pc = "ok"]
    /\ UNCHANGED body

ReplayConflict(c) ==
    /\ icall[c].pc = "run" /\ ~AsExpected(icall[c].key)
    /\ icall' = [icall EXCEPT ![c].pc = "failed"]
    /\ UNCHANGED <<space, body, idem, sub, mute, notif, advanced>>

(* The answer is kept in the entry, if it is still there; a failure        *)
(* deletes it, whoever holds it now.                                       *)
CloseIdempotent(c) ==
    LET k == icall[c].key IN
    /\ icall[c].pc \in {"ok", "failed"}
    /\ idem' = [idem EXCEPT ![k] = IF icall[c].pc = "failed" THEN "none"
                                   ELSE IF idem[k] = "none" THEN "none" ELSE "done"]
    /\ End(c)
    /\ UNCHANGED <<space, body, sub, mute, notif, advanced>>

(* The server stops, or the client goes: the entry stays open.             *)
CallLost(c) ==
    /\ icall[c].pc \in {"scoped", "run", "ok", "failed"}
    /\ End(c)
    /\ UNCHANGED <<space, body, idem, sub, mute, notif, advanced>>

----------------------------------------------------------------------------
(* ClaimOutbox and CompleteOutbox; a worker that stops in between leaves   *)
(* the row in processing, which ClaimOutbox does not select.               *)
ClaimOutbox(n) ==
    /\ n \in notif /\ n.out = "pending"
    /\ notif' = (notif \ {n}) \cup {[n EXCEPT !.out = "processing"]}
    /\ UNCHANGED <<space, body, idem, icall, sub, mute, advanced>>

CompleteOutbox(n) ==
    /\ n \in notif /\ n.out = "processing"
    /\ notif' = (notif \ {n}) \cup {[n EXCEPT !.out = "sent"]}
    /\ UNCHANGED <<space, body, idem, icall, sub, mute, advanced>>

SpaceNext ==
    \/ \E c \in IsCalls :
          \/ \E op \in {"watch", "mute", "unmute", "unwatch", "read", "ignore"} : ResolveScope(c, op)
          \/ \E op \in {"step", "reset"}, k \in IsKeys : ResolveReplay(c, op, k)
          \/ AddWatchlist(c) \/ RemoveWatchlist(c) \/ SetMute(c) \/ PatchNotification(c)
          \/ OpenIdempotent(c) \/ ReplayStep(c) \/ ReplayReset(c) \/ ReplayConflict(c)
          \/ CloseIdempotent(c) \/ CallLost(c)
    \/ \E k \in IsKeys : TwoMinutesPass(k)
    \/ \E n \in notif : ClaimOutbox(n) \/ CompleteOutbox(n)

SpaceSpec == SpaceInit /\ [][SpaceNext]_isVars

----------------------------------------------------------------------------
(* After a reset nothing comes back: what a subscriber, a mute or a        *)
(* notification says belongs to the generation of the space, also when the *)
(* request that wrote it had been on its way during the reset.             *)
SpaceIsOneGeneration ==
    /\ sub \in {0, space.gen} /\ mute \in {0, space.gen}
    /\ \A n \in notif : n.gen = space.gen

(* A replay request moves the replay at most once, however often it is     *)
(* sent, taken over or retried after an answer was lost.                   *)
MovesOnce == \A k \in IsKeys : advanced[k] <= 1

(* Reset, Subscribe, Mute and the outbox: after a reset nothing of the old *)
(* generation comes back, whatever was on its way, and no request moves a  *)
(* replay twice.                                                           *)
NothingComesTwice == SpaceIsOneGeneration /\ MovesOnce
============================================================================
