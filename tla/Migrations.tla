---------------------------- MODULE Migrations ----------------------------
(* migrate, migrate:rollback, migrate:refresh, migrate:fresh and db:wipe      *)
(* (database/migrations.py, console/migrate.py), run by processes that may    *)
(* overlap, as two deployments do. A command's DDL and log rows are one       *)
(* transaction of a database whose DDL is transactional (PostgreSQL); on      *)
(* SQLite and MySQL a command that fails leaves the tables it made.           *)
EXTENDS Integers, FiniteSetsExt
CONSTANTS
    Deploys,        \* processes that run a command
    Migrations,     \* numbered as their file names are ordered
    Needs,          \* [Migrations -> the earlier ones whose tables it changes]
    OnlyData,       \* those that change rows: no error tells they ran before
    MaxBatch        \* bound of the batch numbers

ASSUME MigrationsAssumption ==
    /\ IsFiniteSet(Migrations) /\ Migrations \subseteq Nat /\ OnlyData \subseteq Migrations
    /\ \A m \in Migrations : Needs[m] \subseteq {n \in Migrations : n < m}
    /\ MaxBatch \in Nat

VARIABLES
    files,      \* the migrations in database/migrations
    logged,     \* arvel_migrations: [Migrations -> its batch, or 0 when it is not applied]
    effect,     \* [Migrations -> times its up ran less times its down did]
    deploy,     \* [Deploys -> what it does, what it read, what it did and has not committed]
    overlapped \* history: a rollback overlapped another command or missed a file

migrationVars == <<files, logged, effect, deploy, overlapped>>

\* A deploy that has done nothing yet of what it is at.
Begun(at, todo, batch, then) ==
    [at |-> at, todo |-> todo, batch |-> batch, done |-> {}, then |-> then]
Resting == Begun("idle", {}, 0, "idle")
Closed(s) == \A m \in s : Needs[m] \subseteq s

Undone == -1    \* bound: undone once more than it was done

MigrationsTypeOK ==
    /\ files \subseteq Migrations
    /\ logged \in [Migrations -> 0..MaxBatch]
    /\ effect \in [Migrations -> Undone..2]
    /\ deploy \in [Deploys -> [at : {"idle", "wipe", "run", "up", "down"}, todo : SUBSET Migrations,
                               batch : 0..MaxBatch, done : SUBSET Migrations, then : {"idle", "run"}]]
    /\ overlapped \in BOOLEAN

MigrationsInit ==
    /\ files = {} /\ overlapped = FALSE
    /\ logged = [m \in Migrations |-> 0] /\ effect = [m \in Migrations |-> 0]
    /\ deploy = [d \in Deploys |-> Resting]

----------------------------------------------------------------------------
Applied == {m \in Migrations : logged[m] # 0}
LastBatch == Max({logged[m] : m \in Migrations} \cup {0})
InTransaction(d) == deploy[d].at \in {"up", "down"}
Others(d) == Deploys \ {d}
Overlaps(d, at) == \E e \in Others(d) : deploy[e].at \in at

\* A branch is merged or checked out: migrations come in any order, with those they need.
Checkout(s) ==
    /\ Closed(s)
    /\ files' = s
    /\ UNCHANGED <<logged, effect, deploy, overlapped>>

\* migrate; migrate:refresh goes on to run, migrate:fresh drops every table first.
StartCommand(d, at, next) ==
    /\ deploy[d].at = "idle"
    /\ deploy' = [deploy EXCEPT ![d] = Begun(at, {}, 0, next)]
    /\ UNCHANGED <<files, logged, effect, overlapped>>

\* drop_all: the log's table as well. It waits for the transactions that read one.
DropAll(d) ==
    /\ deploy[d].at = "wipe"
    /\ \A e \in Others(d) : ~InTransaction(e)
    /\ logged' = [m \in Migrations |-> 0] /\ effect' = [m \in Migrations |-> 0]
    /\ deploy' = [deploy EXCEPT ![d] = Begun(@.then, {}, 0, "idle")]
    /\ UNCHANGED <<files, overlapped>>

\* The transaction begins and reads what is applied, and the last batch.
BeginRun(d) ==
    /\ deploy[d].at = "run"
    /\ LastBatch < MaxBatch
    /\ deploy' = [deploy EXCEPT ![d] = Begun("up", files \ Applied, LastBatch + 1, "idle")]
    /\ overlapped' = (overlapped \/ Overlaps(d, {"down"}))
    /\ UNCHANGED <<files, logged, effect>>

BeginRollback(d, next) ==
    LET inBatch == {m \in Applied : logged[m] = LastBatch}
    IN  /\ deploy[d].at = "idle"
        /\ deploy' = [deploy EXCEPT ![d] = Begun("down", inBatch \cap files, 0, next)]
        /\ overlapped' = (overlapped \/ Overlaps(d, {"up", "down"}) \/ ~(inBatch \subseteq files))
        /\ UNCHANGED <<files, logged, effect>>

----------------------------------------------------------------------------
\* What another transaction changed and has not committed is waited for.
WaitsFor(d, m) == \E e \in Others(d) : m \in deploy[e].done

\* Mutant: the log has no primary key, and a migration of rows runs where it ran before.
UpOnce(m) == m \in OnlyData \/ effect[m] = 0

\* Its row is inserted, and the tables it makes are not there.
FirstTime(m) == logged[m] = 0 /\ (m \in OnlyData \/ effect[m] = 0)

\* up and the INSERT: the tables it changes are there, or its own transaction made them.
CanUp(d, m) ==
    /\ FirstTime(m)
    /\ \A n \in Needs[m] : effect[n] = 1 \/ n \in deploy[d].done

CanDown(d, m) ==
    /\ effect[m] > (IF m \in OnlyData THEN Undone ELSE 0)
    /\ \A n \in Migrations : m \in Needs[n] => effect[n] = 0 \/ n \in deploy[d].done
CanApply(d, m) == IF deploy[d].at = "up" THEN CanUp(d, m) ELSE CanDown(d, m)

Migrate(d, m) ==
    /\ ~WaitsFor(d, m)
    /\ CanApply(d, m)
    /\ deploy' = [deploy EXCEPT ![d] = [deploy[d] EXCEPT !.todo = deploy[d].todo \ {m},
                                               !.done = deploy[d].done \cup {m}]]
    /\ UNCHANGED <<files, logged, effect, overlapped>>

\* Mutant: a rollback goes through the migrations as they were applied.
AsApplied(d) == Min(deploy[d].todo)

\* In the order of the files, or backwards.
NextMigration(d) ==
    IF deploy[d].at = "up" THEN Min(deploy[d].todo) ELSE Max(deploy[d].todo)

MigrateNext(d) == InTransaction(d) /\ deploy[d].todo # {} /\ Migrate(d, NextMigration(d))

\* The migration raises, the log refuses a second row, or the process dies: all is undone.
AbortCommand(d) ==
    /\ InTransaction(d)
    /\ deploy' = [deploy EXCEPT ![d] = Resting]
    /\ UNCHANGED <<files, logged, effect, overlapped>>

\* COMMIT; a rollback that migrate:refresh began goes on with a run.
CommitCommand(d) ==
    LET mine == deploy[d]
        up == mine.at = "up"
    IN  /\ InTransaction(d) /\ mine.todo = {}
        /\ logged' = [m \in Migrations |-> IF m \notin mine.done THEN logged[m]
                                           ELSE IF up THEN mine.batch ELSE 0]
        /\ effect' = [m \in Migrations |-> IF m \notin mine.done THEN effect[m]
                                           ELSE IF up THEN effect[m] + 1 ELSE effect[m] - 1]
        /\ deploy' = [deploy EXCEPT ![d] = Begun(mine.then, {}, 0, "idle")]
        /\ UNCHANGED <<files, overlapped>>

MigrationStep ==
    \/ \E s \in SUBSET Migrations : Checkout(s)
    \/ \E d \in Deploys :
          \/ StartCommand(d, "run", "idle") \/ StartCommand(d, "wipe", "idle") \/ StartCommand(d, "wipe", "run")
          \/ DropAll(d) \/ BeginRun(d) \/ BeginRollback(d, "idle") \/ BeginRollback(d, "run")
          \/ MigrateNext(d) \/ AbortCommand(d) \/ CommitCommand(d)

----------------------------------------------------------------------------
(* Properties *)

\* database/migrations.py: "migrate is idempotent (only pending migrations run) and
\* migrate:rollback reverts the last batch". However commands overlap, no migration is
\* applied twice; and unless a rollback overlapped another command or had lost a file, the
\* log names those in effect, none is in effect without those it needs, and a command that
\* no other has forestalled gets to its end.
SchemaRight ==
    /\ \A m \in Migrations : effect[m] <= 1
    /\ ~overlapped => /\ \A m \in Migrations : effect[m] = IF logged[m] # 0 THEN 1 ELSE 0
                     /\ Closed(Applied)
                     /\ \A d \in Deploys : InTransaction(d) /\ deploy[d].todo # {} =>
                           \/ CanApply(d, NextMigration(d))
                           \/ deploy[d].at = "up" /\ deploy[d].todo \cap Applied # {}
=============================================================================
