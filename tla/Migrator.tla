------------------------------ MODULE Migrator ------------------------------
(***************************************************************************)
(* internal/datastore: opening the database and bringing its schema up to  *)
(* date, by several elph processes on one file, any of which may crash.    *)
(* Migrations are known by their version; what the packages of a release   *)
(* register, in any order, is Registered of its processes.  The database   *)
(* commits a transaction as a whole, refuses a version already recorded,   *)
(* and runs one writing transaction at a time (external: the driver).      *)
(***************************************************************************)
EXTENDS Naturals, FiniteSets

CONSTANTS
    Openers,   \* bound: processes started on the database, none twice
    Registered \* the versions the release of each registers: 1 to 5, 1 to 6

Versions == UNION {Registered[p] : p \in Openers}

\* A release registers the versions of those before it and higher ones.
ASSUME MigratorConstants ==
    /\ Registered \in [Openers -> SUBSET (Nat \ {0})]
    /\ \A p \in Openers : IsFiniteSet(Registered[p])
    /\ \A p \in Openers : \A v \in Registered[p], w \in Versions :
         w < v => w \in Registered[p]

VARIABLES
    stage,   \* of a process: "settings", "connect", "table", "version",
             \* "apply", "statements", "record", "open", "failed"
    current, \* the version it read: getCurrentVersion
    ahead,   \* the migrations it has still to look at
    writer,  \* processes whose transaction is open: at most one
    staged,  \* the statements of that transaction have run
    table,   \* app_migrations exists
    recorded,\* versions in app_migrations
    schema,  \* versions whose statements are committed
    runs     \* history: how often each version's statements were committed

migratorVars == <<stage, current, ahead, writer, staged, table, recorded, schema, runs>>

MigratorInit ==
    /\ stage = [p \in Openers |-> "settings"]
    /\ current = [p \in Openers |-> 0]
    /\ ahead = [p \in Openers |-> {}]
    /\ writer = {} /\ staged = FALSE
    /\ table = FALSE /\ recorded = {} /\ schema = {}
    /\ runs = [v \in Versions |-> 0]

database == <<writer, staged, table, recorded, schema, runs>>
Greatest(S) == IF S = {} THEN 0 ELSE CHOOSE v \in S : \A w \in S : w <= v

GoTo(p, s) == stage' = [stage EXCEPT ![p] = s]

\* settings.Load, ensureDBDir, sql.Open and the ping.
PrepareTable(p) ==
    /\ \/ stage[p] = "settings" /\ GoTo(p, "connect")
       \/ stage[p] = "connect" /\ GoTo(p, IF Registered[p] = {} THEN "open" ELSE "table")
    /\ UNCHANGED <<current, ahead, database>>

EnsureTable(p) ==
    /\ stage[p] = "table"
    /\ GoTo(p, "version")
    /\ table' = TRUE
    /\ UNCHANGED <<current, ahead, writer, staged, recorded, schema, runs>>

\* MAX(version), and the registered migrations, sorted by version.
ReadVersion(p) ==
    /\ stage[p] = "version"
    /\ GoTo(p, "apply")
    /\ current' = [current EXCEPT ![p] = Greatest(recorded)]
    /\ ahead' = [ahead EXCEPT ![p] = Registered[p]]
    /\ UNCHANGED database

\* Faulty variant of Pending: the migrations are taken as they come.
PendingUnsorted(p, v) == v \in ahead[p]

\* The next migration in the order of versions.
Pending(p, v) == v \in ahead[p] /\ \A w \in ahead[p] : v <= w

SkipApplied(p) ==
    /\ stage[p] = "apply"
    /\ \E v \in Registered[p] : /\ Pending(p, v) /\ v <= current[p]
                             /\ ahead' = [ahead EXCEPT ![p] = @ \ {v}]
    /\ UNCHANGED <<stage, current, database>>

BeginTx(p) ==
    /\ stage[p] = "apply" /\ writer = {}
    /\ \E v \in Registered[p] : Pending(p, v) /\ v > current[p]
    /\ GoTo(p, "statements")
    /\ writer' = {p}
    /\ UNCHANGED <<current, ahead, staged, table, recorded, schema, runs>>

RunStatements(p) ==
    /\ stage[p] = "statements"
    /\ GoTo(p, "record")
    /\ staged' = TRUE
    /\ UNCHANGED <<current, ahead, writer, table, recorded, schema, runs>>

\* Faulty variant of Commits: the version is not checked to be new.
CommitsAgain(v) == v \in Versions

\* The unique index on the version.
Commits(v) == v \notin recorded

\* The insert of the version, and tx.Commit.
Record(p) ==
    /\ stage[p] = "record"
    /\ \E v \in Registered[p] :
         /\ Pending(p, v) /\ v > current[p] /\ Commits(v)
         /\ recorded' = recorded \cup {v}
         /\ schema' = schema \cup {v}
         /\ runs' = [runs EXCEPT ![v] = @ + 1]
         /\ ahead' = [ahead EXCEPT ![p] = @ \ {v}]
    /\ GoTo(p, "apply")
    /\ writer' = {} /\ staged' = FALSE
    /\ UNCHANGED <<current, table>>

Finished(p) ==
    /\ stage[p] = "apply" /\ ahead[p] = {}
    /\ GoTo(p, "open")
    /\ UNCHANGED <<current, ahead, database>>

\* A step that fails, the insert of a known version among them, ends the
\* process with an error; so does a crash.  An open transaction is undone.
FailOpen(p) ==
    /\ stage[p] \notin {"open", "failed"}
    /\ GoTo(p, "failed")
    /\ writer' = writer \ {p}
    /\ staged' = (staged /\ writer # {p})
    /\ UNCHANGED <<current, ahead, table, recorded, schema, runs>>

MigratorNext == \E p \in Openers :
    \/ PrepareTable(p) \/ EnsureTable(p) \/ ReadVersion(p) \/ SkipApplied(p)
    \/ BeginTx(p) \/ RunStatements(p) \/ Record(p) \/ Finished(p) \/ FailOpen(p)

MigratorSpec == MigratorInit /\ [][MigratorNext]_migratorVars

-----------------------------------------------------------------------------
\* Whatever processes start together or crash between two migrations: the
\* schema is what app_migrations says, each migration was carried out once,
\* every version below a recorded one is recorded too, and a process that
\* got its database finds all that its release registers.
MigratedInOrder ==
    /\ schema = recorded
    /\ \A v \in Versions : runs[v] = IF v \in recorded THEN 1 ELSE 0
    /\ \A v \in recorded, w \in Versions : w < v => w \in recorded
    /\ \A p \in Openers : stage[p] = "open" => Registered[p] \subseteq recorded
=============================================================================
