----------------------------- MODULE Migrations -----------------------------
(***************************************************************************)
(* Schema migration at start-up: MigrateMigrations of                      *)
(* app/server/initialize/migrate.go, what a file declares                  *)
(* (parseSchemaObjects and dedup, migrate_sql.go) and what a database      *)
(* lacks of it (catalog.missing, migrate_catalog.go).  Servers of several  *)
(* releases start on one database, which may be empty, may hold the ledger *)
(* or may be a legacy one that was built without it.                       *)
(*                                                                         *)
(* A file is a sequence of statements [kind, obj]; an object stands for a  *)
(* table, column, index, key or named constraint.  Statements of kind      *)
(* "other" (data, functions, triggers) declare nothing.                    *)
(***************************************************************************)
EXTENDS Naturals, Sequences, SequencesExt

CONSTANTS
    Versions,   \* versions of migrations, in the order of their names
    File,       \* [version -> statements]
    Edited,     \* File with some file changed after it was released
    Releases,   \* [release -> [files |-> how many versions it embeds, edited |-> Boolean]]
    Servers,    \* processes that start
    ReleaseOf   \* the release of each

(* Versions have different names, a file has a statement, and a release    *)
(* embeds the first of them.                                               *)
ASSUME MigrationAssumption ==
    /\ Versions = [i \in 1..Len(Versions) |-> Versions[i]] /\ Len(Versions) \in Nat
    /\ \A i, j \in 1..Len(Versions) : Versions[i] = Versions[j] => i = j
    /\ \A i \in 1..Len(Versions) : File[Versions[i]] # <<>> /\ Edited[Versions[i]] # <<>>
    /\ \A s \in Servers : Releases[ReleaseOf[s]].files \in 0..Len(Versions)
    /\ "none" \notin Servers

VARIABLES
    schema,     \* the statements in effect: objects that exist, <<"done", v, i>> for the others
    ledger,     \* finance_schema_migrations: version -> the file it was registered with, <<>> if not
    server,     \* each process: "starting", "applying", "serving" or "refused"
    work        \* the transaction that holds the advisory lock

miVars == <<schema, ledger, server, work>>

NoWork == [by |-> "none", todo |-> {}, schema |-> {}, ledger |-> [v \in {} |-> <<>>]]

Embedded(s) ==
    LET r == Releases[ReleaseOf[s]] IN
    [i \in 1..r.files |-> [version |-> Versions[i],
                           sql |-> (IF r.edited THEN Edited ELSE File)[Versions[i]]]]

----------------------------------------------------------------------------
(* What is in effect after the first k statements of a file: of those that *)
(* name an object the last one decides.  To create what exists is an error. *)
Named(m, k, kind) == {m.sql[i].obj : i \in {j \in 1..k : m.sql[j].kind = kind}}

After(db, m, k) ==
    {o \in db \cup Named(m, k, "create") :
        \A i \in 1..k : m.sql[i] = [kind |-> "drop", obj |-> o] =>
            \E j \in i..k : m.sql[j] = [kind |-> "create", obj |-> o]}
    \cup {<<"done", m.version, i>> : i \in {j \in 1..k : m.sql[j].kind = "other"}}

Fails(db, m) ==
    \E i \in 1..Len(m.sql) :
        m.sql[i].kind = "create" /\ m.sql[i].obj \in After(db, m, i - 1)

Execute(db, m) == After(db, m, Len(m.sql))

(* What a file declares: what it creates and does not name in a DROP.      *)
Statements(m, kind) == Named(m, Len(m.sql), kind)

Declared(ms) ==
    LET created == UNION {Statements(m, "create") : m \in ms}
        dropped == UNION {Statements(m, "drop") : m \in ms}
    IN created \ dropped

(* catalog.missing *)
Missing(db, ms) == Declared(ms) \ db

(* A database as an earlier, ledger-less release left it: files applied    *)
(* completely, the last one perhaps only up to some statement.             *)
Legacy(n, k) ==
    LET whole == FoldLeft(LAMBDA acc, i : Execute(acc, [version |-> Versions[i], sql |-> File[Versions[i]]]),
                          {}, [i \in 1..n |-> i])
    IN IF n = Len(Versions) THEN whole
       ELSE LET m == [version |-> Versions[n + 1], sql |-> File[Versions[n + 1]]]
            IN After(whole, m, k)

MigrationInit ==
    /\ \E n \in 0..Len(Versions) :
         \E k \in 0..(IF n = Len(Versions) THEN 0 ELSE Len(File[Versions[n + 1]])) :
            schema = Legacy(n, k)
    /\ ledger = [v \in {Versions[i] : i \in 1..Len(Versions)} |-> <<>>]
    /\ server = [s \in Servers |-> "starting"]
    /\ work = NoWork

----------------------------------------------------------------------------
(* The classification of the embedded files, one after the other. *)
Class(m) ==
    LET lacking == Missing(schema, {m}) IN
    IF ledger[m.version] # <<>>
      THEN IF ledger[m.version] = m.sql THEN "registered" ELSE "edited"
      ELSE IF Declared({m}) # {} /\ lacking = {} THEN "baseline"
      ELSE IF lacking = Declared({m}) THEN "pending" ELSE "partial"

OutOfOrder(ms) ==
    \E i, j \in 1..Len(ms) : i < j /\ Class(ms[i]) = "pending" /\ Class(ms[j]) = "baseline"

Baseline(ms) == {ms[i] : i \in {j \in 1..Len(ms) : Class(ms[j]) = "baseline"}}

(* Mutant: the checksum of a registered file is not compared. *)
RefusesUnedited(ms) ==
    \/ \E i \in 1..Len(ms) : Class(ms[i]) = "partial"
    \/ OutOfOrder(ms)
    \/ Missing(schema, Baseline(ms)) # {}

Refuses(ms) ==
    \/ \E i \in 1..Len(ms) : Class(ms[i]) \in {"edited", "partial"}
    \/ OutOfOrder(ms)
    \/ Missing(schema, Baseline(ms)) # {}

(* pg_advisory_xact_lock: one process at a time decides and applies. *)
LockAndPlan(s) ==
    LET ms == Embedded(s) IN
    /\ server[s] = "starting" /\ work.by = "none"
    /\ IF Refuses(ms)
         THEN server' = [server EXCEPT ![s] = "refused"] /\ UNCHANGED work
         ELSE /\ server' = [server EXCEPT ![s] = "applying"]
              /\ work' = [by |-> s,
                          todo |-> {i \in 1..Len(ms) : Class(ms[i]) = "pending"},
                          schema |-> schema,
                          ledger |-> [v \in DOMAIN ledger |->
                                        IF \E m \in Baseline(ms) : m.version = v
                                          THEN (CHOOSE m \in Baseline(ms) : m.version = v).sql
                                          ELSE ledger[v]]]
    /\ UNCHANGED <<schema, ledger>>

Apply(s) ==
    /\ work.by = s /\ work.todo # {}
    /\ LET next == Min(work.todo)
           m == Embedded(s)[next] IN
       IF Fails(work.schema, m)
         THEN server' = [server EXCEPT ![s] = "refused"] /\ work' = NoWork
         ELSE /\ work' = [work EXCEPT !.todo = @ \ {next}, !.schema = Execute(@, m),
                                      !.ledger[m.version] = m.sql]
              /\ UNCHANGED server
    /\ UNCHANGED <<schema, ledger>>

Commit(s) ==
    /\ work.by = s /\ work.todo = {}
    /\ schema' = work.schema /\ ledger' = work.ledger
    /\ server' = [server EXCEPT ![s] = "serving"]
    /\ work' = NoWork

(* A process dies or is started again; its transaction rolls back. *)
Crash(s) ==
    /\ server[s] # "starting"
    /\ server' = [server EXCEPT ![s] = "starting"]
    /\ work' = IF work.by = s THEN NoWork ELSE work
    /\ UNCHANGED <<schema, ledger>>

MigrationNext == \E s \in Servers : LockAndPlan(s) \/ Apply(s) \/ Commit(s) \/ Crash(s)

MigrationSpec == MigrationInit /\ [][MigrationNext]_miVars

----------------------------------------------------------------------------
(* A registered migration is in the schema: everything it declares exists, *)
(* but for what a later registered migration dropped.                      *)
Applied(db, led) ==
    LET done == {i \in 1..Len(Versions) : led[Versions[i]] # <<>>}
        file(i) == [version |-> Versions[i], sql |-> led[Versions[i]]]
    IN \A i \in done :
          Declared({file(i)}) \ UNION {Statements(file(j), "drop") : j \in {k \in done : k > i}}
              \subseteq db

(* A process serves only on a database that has each of its own            *)
(* migrations registered, with the contents the process was built with.    *)
EachIsRegistered ==
    \A s \in Servers : server[s] = "serving" =>
        \A i \in 1..Len(Embedded(s)) : ledger[Embedded(s)[i].version] = Embedded(s)[i].sql

(* Both, whichever of the processes applied a migration, crashed at it or  *)
(* took an existing schema over.                                           *)
ServesItsOwnSchema == EachIsRegistered /\ Applied(schema, ledger)
============================================================================
