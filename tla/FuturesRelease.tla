--------------------------- MODULE FuturesRelease ---------------------------
(***************************************************************************)
(* How the futures module goes live (app/server/service/futures            *)
(* /domain_admin.go, release_gate.go, the policy of domain.go).  A source  *)
(* is registered, versioned and switched; a probe of its present version   *)
(* that passes opens a release gate for a day; one operations version with *)
(* mode "live" consumes a gate; and the operations version in force, with  *)
(* the users it lists, decides each request.  Each operation is one        *)
(* transaction that locks the row it compares a version with.              *)
(***************************************************************************)
EXTENDS Integers, FiniteSets, Sequences

CONSTANTS
    Gates,        \* probes, and the gates that those which pass open
    Customers,    \* users
    Products,     \* admitted one by one
    MaxSourceVersion, MaxOpsVersion, MaxAdmission \* bounds

ASSUME ReleaseAssumption == MaxSourceVersion \in Nat /\ MaxOpsVersion \in Nat /\ MaxAdmission \in Nat

VARIABLES
    source,    \* the row of futures_sources
    gate,      \* futures_release_gates with the probe of each
    ops,       \* futures_operations, newest last
    admission  \* futures_admission of each product, newest last

frlVars == <<source, gate, ops, admission>>

Modes == {"off", "read_only", "live"}
NoGate == [status |-> "none", of |-> 0, version |-> 0]

ReleaseInit ==
    /\ source = [version |-> 0, status |-> "none"]
    /\ gate = [g \in Gates |-> NoGate]
    /\ ops = <<>>
    /\ admission = [p \in Products |-> <<>>]

----------------------------------------------------------------------------
(* Sources.  Every change is a new version and withdraws what is open.     *)
Kept(g) == gate[g]
Invalidated(g) == IF gate[g].status = "active" THEN [gate[g] EXCEPT !.status = "invalidated"] ELSE gate[g]

invalidateSourceGates == gate' = [g \in Gates |-> Invalidated(g)]

CreateSource ==
    /\ source.version = 0
    /\ source' = [version |-> 1, status |-> "registered"]
    /\ UNCHANGED <<gate, ops, admission>>

ChangeSource(expected, status) ==
    /\ source.version > 0 /\ source.version = expected /\ expected < MaxSourceVersion
    /\ source' = [version |-> expected + 1, status |-> status]
    /\ invalidateSourceGates
    /\ UNCHANGED <<ops, admission>>

PatchSource(expected, status) ==
    status \in {"enabled", "paused", "revoked"} /\ ChangeSource(expected, status)

CreateSourceVersion(expected) == ChangeSource(expected, "registered")

(* A probe names the version it was made against. *)
CreateSourceProbe(g, version, pass) ==
    /\ gate[g].status = "none"
    /\ source.version > 0 /\ source.version = version
    /\ gate' = [gate EXCEPT ![g] = [status |-> IF pass THEN "active" ELSE "failed", of |-> version, version |-> 0]]
    /\ UNCHANGED <<source, ops, admission>>

GateExpires(g) ==
    /\ gate[g].status = "active"
    /\ gate' = [gate EXCEPT ![g].status = "expired"]
    /\ UNCHANGED <<source, ops, admission>>

----------------------------------------------------------------------------
OpsVersion == IF ops = <<>> THEN 1 ELSE ops[Len(ops)].version

Consumable(g) == gate[g].status = "active"

(* PatchOperationsWithGate, with consumeReleaseGate for "live".  No list   *)
(* of users is stored as null and read back as "everybody".                *)
PatchOperations(expected, mode, users) ==
    /\ OpsVersion = expected /\ expected < MaxOpsVersion
    /\ \/ mode # "live" /\ UNCHANGED gate
       \/ /\ mode = "live"
          /\ \E g \in Gates :
                /\ Consumable(g)
                /\ gate' = [gate EXCEPT ![g].status = "consumed", ![g].version = expected + 1]
    /\ ops' = Append(ops, [version |-> expected + 1, mode |-> mode, users |-> users])
    /\ UNCHANGED <<source, admission>>

PutAdmission(p, expected, status) ==
    /\ IF admission[p] = <<>> THEN expected = 1 ELSE expected = Len(admission[p])
    /\ Len(admission[p]) < MaxAdmission
    /\ admission' = [admission EXCEPT ![p] = Append(@, status)]
    /\ UNCHANGED <<source, gate, ops>>

----------------------------------------------------------------------------
(* runtimePolicy; without any operations version the configured mode, here *)
(* "off", and everybody.                                                   *)
Policy == IF ops = <<>> THEN [version |-> 1, mode |-> "off", users |-> Customers] ELSE ops[Len(ops)]

(* AuthorizeAccess: deletions, cancellations and marks on notifications    *)
(* are maintenance and always allowed to a listed user.                    *)
Permits(kind) ==
    \/ kind = "maintain"
    \/ kind = "read" /\ Policy.mode \in {"read_only", "live"}
    \/ kind = "write" /\ Policy.mode = "live"

AuthorizeAccess(u, kind) == u \in Policy.users /\ Permits(kind)

(* requireAdmittedProduct looks at the newest admission, FillCapabilities  *)
(* at the newest one among those that admit.                               *)
Admitted(p) == admission[p] # <<>> /\ admission[p][Len(admission[p])] = "admitted"
Offered(p)  == \E i \in 1..Len(admission[p]) : admission[p][i] = "admitted"

ReleaseNext ==
    \/ CreateSource
    \/ \E v \in 1..MaxSourceVersion :
          \/ \E status \in {"enabled", "revoked"} : PatchSource(v, status)
          \/ CreateSourceVersion(v)
          \/ \E g \in Gates, pass \in BOOLEAN : CreateSourceProbe(g, v, pass)
    \/ \E g \in Gates : GateExpires(g)
    \/ \E v \in 1..MaxOpsVersion, mode \in Modes, users \in SUBSET Customers : PatchOperations(v, mode, users)
    \/ \E p \in Products, v \in 1..MaxAdmission, status \in {"admitted", "suspended"} : PutAdmission(p, v, status)

ReleaseSpec == ReleaseInit /\ [][ReleaseNext]_frlVars

----------------------------------------------------------------------------
(* Whoever may write owes it to a probe: the operations version in force   *)
(* consumed a gate of its own, and no gate that could still be consumed    *)
(* was opened for a source as it no longer is.                             *)
LiveAsProbed ==
    /\ \A u \in Customers : AuthorizeAccess(u, "write") =>
          \E g \in Gates : gate[g].status = "consumed" /\ gate[g].version = Policy.version
    /\ \A g \in Gates : gate[g].status = "active" => gate[g].of = source.version

(* A product on offer can be researched.  The code does not keep it: an    *)
(* older admission is offered after a newer one has suspended the product. *)
OfferedIsAdmitted == \A p \in Products : Offered(p) => Admitted(p)
============================================================================
