----------------------------- MODULE Migrations -----------------------------
(***************************************************************************)
(* `zipf init` brings the schema up to date (db/migrate.py) and a reader   *)
(* is let in only if it is (db/connection.py).  Several processes may do   *)
(* either at once, of different releases of the program, and each reads    *)
(* what was applied before it takes the write lock of a migration.         *)
(***************************************************************************)
EXTENDS Integers, Sequences, FiniteSets

CONSTANTS
  Openers,     \* processes
  Nobody,
  Releases,    \* how many migrations the releases of the program know
  Idempotent,  \* migrations that only replace triggers or indexes: they can run again
  MaxLosses    \* bound of the model: crashes and power failures

ASSUME MigrationsAssumption ==
  /\ Nobody \notin Openers
  /\ Releases \subseteq Nat \ {0}
  /\ MaxLosses \in Nat

VARIABLES
  db,        \* what is committed: whether the file is there, the schema
             \* statements in the order they ran, and the table schema_migration
  commits,   \* every state that was committed, the last of them db
  script,    \* the open transaction: whose, and which migration has run in it
  migrator,  \* per process, its run of migrate()
  handle,    \* per process, the release whose reader is open, or 0
  losses

migrationVars == <<db, commits, script, migrator, handle, losses>>

NoScript == [by |-> Nobody, migration |-> 0]
NotMigrating == [pc |-> "idle", release |-> 0, already |-> {}, next |-> 0]

Ran(m) == \E i \in DOMAIN db.effects : db.effects[i] = m

-----------------------------------------------------------------------------

Commit(new) == db' = new /\ commits' = Append(commits, new)

\* open_rw creates the file; no command but init looks at the schema afterwards.
OpenWritable ==
  /\ ~db.exists
  /\ Commit([exists |-> TRUE, effects |-> <<>>, ledger |-> {}])
  /\ UNCHANGED <<script, migrator, handle, losses>>

\* _applied: creates schema_migration unless it is there, and reads it.
ReadLedger(p, release) ==
  /\ migrator[p].pc # "migrating" /\ db.exists
  /\ migrator' = [migrator EXCEPT ![p] = [pc |-> "migrating", release |-> release,
                                          already |-> db.ledger, next |-> 1]]
  /\ UNCHANGED <<db, commits, script, handle, losses>>

Migrating(p) == migrator[p].pc = "migrating" /\ script.by # p

\* Mutant: an error is noted and the loop goes on.
GoOn(p) == migrator' = [migrator EXCEPT ![p].next = @ + 1]

\* MigrationError, after a ROLLBACK.
Raise(p) == migrator' = [migrator EXCEPT ![p].pc = "failed"]

Skip(p) ==
  /\ Migrating(p)
  /\ migrator[p].next <= migrator[p].release /\ migrator[p].next \in migrator[p].already
  /\ migrator' = [migrator EXCEPT ![p].next = @ + 1]
  /\ UNCHANGED <<db, commits, script, handle, losses>>

Due(p) ==
  /\ Migrating(p)
  /\ migrator[p].next <= migrator[p].release /\ migrator[p].next \notin migrator[p].already

\* BEGIN is deferred: the first statement of the migration takes the write lock.
\* What is there already cannot be created or added again.
RunStatements(p) ==
  LET m == migrator[p].next IN
  /\ Due(p) /\ script.by = Nobody
  /\ IF Ran(m) /\ m \notin Idempotent
     THEN Raise(p) /\ UNCHANGED script
     ELSE script' = [by |-> p, migration |-> m] /\ UNCHANGED migrator
  /\ UNCHANGED <<db, commits, handle, losses>>

\* busy_timeout runs out while another process holds the lock.
Locked(p) ==
  /\ Due(p) /\ script.by # Nobody
  /\ Raise(p)
  /\ UNCHANGED <<db, commits, script, handle, losses>>

\* What the script leaves behind: its effects, and its row in schema_migration.
Migrated == [exists |-> TRUE, effects |-> Append(db.effects, script.migration),
             ledger |-> db.ledger \cup {script.migration}]

\* Mutant: INSERT OR IGNORE.
RecordIgnoring(p) ==
  /\ script.by = p
  /\ Commit(Migrated)
  /\ migrator' = [migrator EXCEPT ![p].next = @ + 1]
  /\ script' = NoScript
  /\ UNCHANGED <<handle, losses>>

\* INSERT INTO schema_migration, whose name is a primary key; COMMIT.
Record(p) ==
  /\ script.by = p
  /\ IF script.migration \in db.ledger
     THEN Raise(p) /\ UNCHANGED <<db, commits>>
     ELSE /\ Commit(Migrated)
          /\ migrator' = [migrator EXCEPT ![p].next = @ + 1]
  /\ script' = NoScript
  /\ UNCHANGED <<handle, losses>>

Finish(p) ==
  /\ Migrating(p) /\ migrator[p].next > migrator[p].release
  /\ migrator' = [migrator EXCEPT ![p].pc = "done"]
  /\ UNCHANGED <<db, commits, script, handle, losses>>

\* open_ro: DatabaseMissingError and DatabaseOutdatedError close it again.
PendingNames(release) == (1 .. release) \ db.ledger

OpenReader(p, release) ==
  /\ handle[p] = 0 /\ db.exists /\ PendingNames(release) = {}
  /\ handle' = [handle EXCEPT ![p] = release]
  /\ UNCHANGED <<db, commits, script, migrator, losses>>

CloseReader(p) ==
  /\ handle[p] # 0
  /\ handle' = [handle EXCEPT ![p] = 0]
  /\ UNCHANGED <<db, commits, script, migrator, losses>>

Lose == losses < MaxLosses /\ losses' = losses + 1

\* One process dies; SQLite rolls its transaction back.
Die(p) ==
  /\ Lose
  /\ script' = IF script.by = p THEN NoScript ELSE script
  /\ migrator' = [migrator EXCEPT ![p] = NotMigrating]
  /\ handle' = [handle EXCEPT ![p] = 0]
  /\ UNCHANGED <<db, commits>>

\* The machine stops.  With synchronous = NORMAL nothing since the last checkpoint of
\* the WAL need have reached the disk: any number of the last commits may be gone,
\* and none without those after it.
PowerFailure ==
  /\ Lose
  /\ \E n \in DOMAIN commits : db' = commits[n] /\ commits' = SubSeq(commits, 1, n)
  /\ script' = NoScript
  /\ migrator' = [p \in Openers |-> NotMigrating]
  /\ handle' = [p \in Openers |-> 0]

MigrationsInit ==
  /\ db = [exists |-> FALSE, effects |-> <<>>, ledger |-> {}]
  /\ commits = <<db>>
  /\ script = NoScript
  /\ migrator = [p \in Openers |-> NotMigrating]
  /\ handle = [p \in Openers |-> 0]
  /\ losses = 0

MigrationsNext ==
  \/ OpenWritable \/ PowerFailure
  \/ \E p \in Openers :
       \/ \E release \in Releases : ReadLedger(p, release) \/ OpenReader(p, release)
       \/ Skip(p) \/ RunStatements(p) \/ Locked(p) \/ Record(p) \/ Finish(p)
       \/ CloseReader(p) \/ Die(p)

MigrationsSpec == MigrationsInit /\ [][MigrationsNext]_migrationVars

-----------------------------------------------------------------------------

Database == [exists : BOOLEAN, effects : Seq(Nat), ledger : SUBSET Nat]

MigrationsTypeOK ==
  /\ db \in Database /\ commits \in Seq(Database)
  /\ script \in [by : Openers \cup {Nobody}, migration : Nat]
  /\ migrator \in [Openers -> [pc : {"idle", "migrating", "done", "failed"}, release : Nat,
                               already : SUBSET Nat, next : Nat]]
  /\ handle \in [Openers -> Nat]
  /\ losses \in Nat

\* "Each migration and its ledger row commit together" (migrate.py:80): whoever
\* migrates beside whom, and whatever dies, the schema is a prefix of the
\* migrations, each run once and in order (004 run again after 007 would bring an
\* old trigger back), and schema_migration names exactly those.
SchemaIsLedger ==
  /\ \A i \in DOMAIN db.effects : db.effects[i] = i
  /\ db.ledger = DOMAIN db.effects

\* Who was told that the database is ready, by migrate() or by open_ro, has every
\* migration of its release under it for as long as it runs.
ReadyIsReady ==
  \A p \in Openers :
    /\ migrator[p].pc = "done" => 1 .. migrator[p].release \subseteq db.ledger
    /\ 1 .. handle[p] \subseteq db.ledger
=============================================================================
