------------------------------ MODULE Sessions ------------------------------
(***************************************************************************)
(* Browser sessions in production: Login (api/v1/finance/handlers.go),     *)
(* CreateSession, authenticateSession, SessionCSRF and Logout              *)
(* (httpx/session.go), and the two triggers of 010_sessions.sql that act   *)
(* when an operator writes finance_users directly.                         *)
(*                                                                         *)
(* A stored hash is [of |-> the password it verifies, n |-> its salt]: two *)
(* hashes of one password differ.  The user row holds a legacy hash and a  *)
(* v2 hash or NoHash; the digest of a session is the pair it was made for. *)
(***************************************************************************)
EXTENDS Naturals, FiniteSets

CONSTANTS
    Passwords,  \* passwords of the account
    Logins,     \* login requests
    Tabs,       \* browser tabs with the same cookie, sending requests
    MaxHashes   \* hashes ever made (a bound)

NoHash == [of |-> "", n |-> 0]

VARIABLES
    legacy,     \* password_hash: the hash, and whether it is bcrypt
    v2,         \* password_hash_v2
    disabled,   \* disabled_at is set
    secret,     \* the password the operator set last
    hashes,     \* hashes made so far
    login,      \* each login request
    session,    \* finance_browser_sessions by the login that created it
    request     \* each tab: its csrf token and the request under way

seVars == <<legacy, v2, disabled, secret, hashes, login, session, request>>

NoSession == [live |-> FALSE, digest |-> <<NoHash, NoHash>>, csrf |-> 0]
Digest == <<legacy.hash, v2>>

SessionInit ==
    /\ \E p \in Passwords, b \in BOOLEAN :
          legacy = [hash |-> [of |-> p, n |-> 1], bcrypt |-> b] /\ secret = p
    /\ v2 = NoHash /\ disabled = FALSE /\ hashes = 1
    /\ login = [l \in Logins |-> [pc |-> "idle", typed |-> "", seen |-> <<NoHash, NoHash>>,
                                  bcrypt |-> FALSE]]
    /\ session = [l \in Logins |-> NoSession]
    /\ request = [t \in Tabs |-> [pc |-> "idle", csrf |-> 0, of |-> CHOOSE l \in Logins : TRUE,
                                  admitted |-> FALSE]]

----------------------------------------------------------------------------

(* The triggers: writing only the legacy hash clears v2; a change of       *)
(* either hash, or a row left disabled, revokes every session.             *)
Synced(newLegacy, newV2) == IF newLegacy # legacy.hash /\ newV2 = v2 THEN NoHash ELSE newV2

Revoked == [l \in Logins |-> [session[l] EXCEPT !.live = FALSE]]

(* Mutant: the trigger forgets the account that is left disabled. *)
RevokedByHash(newLegacy, newV2, off) ==
    IF newLegacy # legacy.hash \/ newV2 # v2 THEN Revoked ELSE session

RevokedBy(newLegacy, newV2, off) ==
    IF newLegacy # legacy.hash \/ newV2 # v2 \/ off THEN Revoked ELSE session

(* An operator, or the previous release, knows only the legacy column. *)
HostReset(p) ==
    /\ hashes < MaxHashes
    /\ LET h == [of |-> p, n |-> hashes + 1] IN
          /\ legacy' = [hash |-> h, bcrypt |-> TRUE]
          /\ v2' = Synced(h, v2)
          /\ session' = RevokedBy(h, Synced(h, v2), disabled)
    /\ secret' = p /\ hashes' = hashes + 1
    /\ UNCHANGED <<disabled, login, request>>

HostDisable(off) ==
    /\ disabled # off
    /\ disabled' = off
    /\ session' = RevokedBy(legacy.hash, v2, off)
    /\ UNCHANGED <<legacy, v2, secret, hashes, login, request>>

----------------------------------------------------------------------------
(* Login: read the user, verify the password, upgrade the hashes in a      *)
(* transaction when they are of an older form, create the session in       *)
(* another one.  Both transactions lock the row and compare it with what   *)
(* was read.                                                               *)
LoginRead(l, p) ==
    /\ login[l].pc = "idle"
    /\ login' = [login EXCEPT ![l] = [pc |-> IF disabled THEN "denied" ELSE "read", typed |-> p,
                                      seen |-> Digest, bcrypt |-> legacy.bcrypt]]
    /\ UNCHANGED <<legacy, v2, disabled, secret, hashes, session, request>>

(* v2 decides when it is there, else the legacy hash. *)
Verifies(seen, typed) == (IF seen[2] # NoHash THEN seen[2] ELSE seen[1]).of = typed

(* bcrypt asks for a rehash; an Argon2id primary without v2 is normalised. *)
Upgrades(l) == login[l].seen[2] = NoHash

LoginVerify(l) ==
    /\ login[l].pc = "read"
    /\ login' = [login EXCEPT ![l].pc =
                    IF ~Verifies(login[l].seen, login[l].typed) THEN "denied"
                    ELSE IF Upgrades(l) THEN "upgrade" ELSE "create"]
    /\ UNCHANGED <<legacy, v2, disabled, secret, hashes, session, request>>

Unchanged(l) == ~disabled /\ Digest = login[l].seen

(* A bcrypt primary keeps its hash and gets a v2; an Argon2id primary      *)
(* becomes v2 and gets a bcrypt twin.                                      *)
LoginUpgrade(l) ==
    /\ login[l].pc = "upgrade" /\ hashes < MaxHashes
    /\ IF ~Unchanged(l)
         THEN /\ login' = [login EXCEPT ![l].pc = "denied"]
              /\ UNCHANGED <<legacy, v2, hashes, session>>
         ELSE LET new == [of |-> login[l].typed, n |-> hashes + 1]
                  primary == IF login[l].bcrypt THEN login[l].seen[1] ELSE new
                  second  == IF login[l].bcrypt THEN new ELSE login[l].seen[1]
              IN /\ legacy' = [hash |-> primary, bcrypt |-> TRUE]
                 /\ v2' = Synced(primary, second)
                 /\ session' = Revoked
                 /\ login' = [login EXCEPT ![l].pc = "create", ![l].seen = <<primary, second>>]
                 /\ hashes' = hashes + 1
    /\ UNCHANGED <<disabled, secret, request>>

CreateSession(l) ==
    /\ login[l].pc = "create"
    /\ IF Unchanged(l)
         THEN /\ session' = [session EXCEPT ![l] = [live |-> TRUE, digest |-> login[l].seen, csrf |-> 0]]
              /\ login' = [login EXCEPT ![l].pc = "in"]
         ELSE /\ login' = [login EXCEPT ![l].pc = "denied"]
              /\ UNCHANGED session
    /\ UNCHANGED <<legacy, v2, disabled, secret, hashes, request>>

----------------------------------------------------------------------------
(* authenticateSession: read the session, then the user, compare, and      *)
(* touch the session if it is still live.  A request that changes          *)
(* something must also carry the csrf token of the session it read.        *)
AuthRead(t, l) ==
    /\ request[t].pc = "idle" /\ session[l].live
    /\ request' = [request EXCEPT ![t].pc = "read", ![t].of = l, ![t].admitted = FALSE]
    /\ UNCHANGED <<legacy, v2, disabled, secret, hashes, login, session>>

AuthUser(t) ==
    LET l == request[t].of IN
    /\ request[t].pc = "read"
    /\ IF disabled \/ session[l].digest # Digest
         THEN /\ session' = Revoked
              /\ request' = [request EXCEPT ![t].pc = "idle"]
         ELSE /\ request' = [request EXCEPT ![t].pc = "touch"]
              /\ UNCHANGED session
    /\ UNCHANGED <<legacy, v2, disabled, secret, hashes, login>>

Touchable(l) == session[l].live

AuthTouch(t, kind) ==
    LET l == request[t].of IN
    /\ request[t].pc = "touch"
    /\ request' = [request EXCEPT
          ![t].pc = "idle",
          ![t].admitted = Touchable(l) /\ (kind = "read" \/ (request[t].csrf # 0 /\ request[t].csrf = session[l].csrf))]
    /\ UNCHANGED <<legacy, v2, disabled, secret, hashes, login, session>>

(* SessionCSRF replaces the one token of the session: the tab that asked   *)
(* has the new one, every other tab holds a stale one.                     *)
SessionCSRF(t) ==
    LET l == request[t].of IN
    /\ request[t].admitted /\ session[l].live /\ session[l].csrf < Cardinality(Tabs)
    /\ session' = [session EXCEPT ![l].csrf = @ + 1]
    /\ request' = [request EXCEPT ![t].csrf = session[l].csrf + 1, ![t].admitted = FALSE]
    /\ UNCHANGED <<legacy, v2, disabled, secret, hashes, login>>

Logout(t) ==
    LET l == request[t].of IN
    /\ request[t].admitted
    /\ session' = [session EXCEPT ![l].live = FALSE]
    /\ request' = [request EXCEPT ![t].admitted = FALSE]
    /\ UNCHANGED <<legacy, v2, disabled, secret, hashes, login>>

(* The absolute or the idle time of a session runs out. *)
SessionExpires(l) ==
    /\ session[l].live
    /\ session' = [session EXCEPT ![l].live = FALSE]
    /\ UNCHANGED <<legacy, v2, disabled, secret, hashes, login, request>>

SessionNext ==
    \/ \E p \in Passwords : HostReset(p) \/ \E l \in Logins : LoginRead(l, p)
    \/ \E off \in BOOLEAN : HostDisable(off)
    \/ \E l \in Logins :
          LoginVerify(l) \/ LoginUpgrade(l) \/ CreateSession(l) \/ SessionExpires(l)
          \/ \E t \in Tabs : AuthRead(t, l)
    \/ \E t \in Tabs :
          AuthUser(t) \/ (\E k \in {"read", "write"} : AuthTouch(t, k)) \/ SessionCSRF(t) \/ Logout(t)

SessionSpec == SessionInit /\ [][SessionNext]_seVars

----------------------------------------------------------------------------
(* Whoever logs in while an operator resets the password or disables the   *)
(* account: a session that can still be used was made for the hashes the   *)
(* row has now, and the account is enabled.                                *)
LiveSessionsAreCurrent ==
    \A l \in Logins : session[l].live => ~disabled /\ session[l].digest = Digest

(* The upgrade of a hash, racing a reset by the operator, never brings an  *)
(* old password back and never locks the current one out.                  *)
PasswordIsTheLastOneSet ==
    /\ legacy.hash.of = secret
    /\ v2 # NoHash => v2.of = secret

(* The two together: a session that can still be used belongs to the       *)
(* hashes that the account has now, and these are of the last password set. *)
ResetIsFinal == LiveSessionsAreCurrent /\ PasswordIsTheLastOneSet
============================================================================
