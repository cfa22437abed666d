-------------------------- MODULE Periphery_proofs --------------------------
(***************************************************************************)
(* What stands around fetch and the queue: the schema and the commands on  *)
(* Search Console that run on it, for any processes, releases, days and    *)
(* pages; the pacing of a capability, for any limit, window and number of  *)
(* tasks (no window of time holds more sends than the limit, and nobody    *)
(* waits twice unless it was overtaken); and the screen of the terminal    *)
(* application.                                                            *)
(***************************************************************************)
EXTENDS Migrations, SearchConsole, RateLimiter, Explorer, Lists_proofs

-----------------------------------------------------------------------------
(* The schema *)

\* How many migrations are committed.
Height == Len(db.effects)

\* What is committed is a prefix of the migrations; where there is no file there is
\* no migration.
Prefix(d) ==
  /\ ~d.exists => d.effects = <<>>
  /\ \A i \in 1 .. Len(d.effects) : d.effects[i] = i
  /\ d.ledger = 1 .. Len(d.effects)

\* ... and so was all that a power failure may bring back.
PrefixesOnly == \A n \in DOMAIN commits : Prefix(commits[n])

\* A run of migrate() has everything behind it: what it read as applied, and what
\* it has applied or skipped since, is committed.
Behind(p) ==
  /\ migrator[p].already \subseteq 1 .. Height
  /\ migrator[p].pc = "migrating" => migrator[p].next > 0
  /\ migrator[p].pc \in {"migrating", "done"} => migrator[p].next <= Height + 1
  /\ migrator[p].pc = "done" => migrator[p].next > migrator[p].release

\* A reader's release is committed whole.
LetIn(p) == handle[p] <= Height

\* An open transaction belongs to a run of migrate() that is at that migration.
InHand ==
  \A p \in Openers : script.by = p =>
    migrator[p].pc = "migrating" /\ script.migration = migrator[p].next

MigrationsInv ==
  /\ MigrationsTypeOK
  /\ Prefix(db) /\ PrefixesOnly
  /\ \A p \in Openers : Behind(p) /\ LetIn(p)
  /\ InHand

LEMMA InitInv == MigrationsInit => MigrationsInv
<1> SUFFICES ASSUME MigrationsInit PROVE MigrationsInv
  OBVIOUS
<1>1. MigrationsTypeOK
  BY MigrationsAssumption
  DEF MigrationsInit, MigrationsTypeOK, Database, NoScript, NotMigrating
<1>2. Height = 0 /\ Prefix(db)
  BY DEF MigrationsInit, Height, Prefix
<1>3. PrefixesOnly
  <2>1. commits = <<db>>
    BY DEF MigrationsInit
  <2>2. \A n \in DOMAIN commits : commits[n] = db
    BY <2>1
  <2> QED BY <1>2, <2>2 DEF PrefixesOnly, Prefix
<1> QED
  BY <1>1, <1>2, <1>3, MigrationsAssumption
  DEF MigrationsInit, MigrationsInv, Behind, LetIn, InHand, NoScript, NotMigrating

\* The migration in hand that is not in the ledger is the one after the prefix.
LEMMA RecordExtends ==
  ASSUME MigrationsInv, NEW p \in Openers, script.by = p, script.migration \notin db.ledger
  PROVE  /\ script.migration = Height + 1
         /\ Migrated \in Database /\ Prefix(Migrated)
         /\ Len(Migrated.effects) = Height + 1
<1> DEFINE n == script.migration
<1>1. /\ db.effects \in Seq(Nat) /\ db.ledger \subseteq Nat /\ Height \in Nat
      /\ n \in Nat /\ n > 0 /\ n <= Height + 1
      /\ db.ledger = 1 .. Height
      /\ \A i \in 1 .. Height : db.effects[i] = i
  BY DEF MigrationsInv, MigrationsTypeOK, Database, Prefix, Behind, InHand, Height
<1>2. n = Height + 1
  <2> HIDE DEF n
  <2>1. n \notin 1 .. Height
    BY <1>1 DEF n
  <2> QED BY <1>1, <2>1
<1>3. /\ Append(db.effects, n) \in Seq(Nat) /\ Len(Append(db.effects, n)) = Height + 1
      /\ \A i \in 1 .. Height + 1 : Append(db.effects, n)[i] = i
  <2> HIDE DEF n
  <2> QED BY <1>1, <1>2 DEF Height
<1>4. db.ledger \cup {n} = 1 .. Height + 1
  <2> HIDE DEF n
  <2> QED BY <1>1, <1>2
<1>5. Migrated = [exists |-> TRUE, effects |-> Append(db.effects, n), ledger |-> db.ledger \cup {n}]
  BY DEF Migrated
<1> QED
  <2> HIDE DEF n
  <2> QED BY <1>1, <1>2, <1>3, <1>4, <1>5 DEF Database, Prefix, n

\* A commit adds its state to those that may come back, a power failure takes the
\* last of them away.
LEMMA CommitKeeps ==
  ASSUME commits \in Seq(Database), PrefixesOnly,
         NEW new \in Database, Prefix(new), commits' = Append(commits, new)
  PROVE  commits' \in Seq(Database) /\ PrefixesOnly'
<1>1. /\ commits' \in Seq(Database) /\ Len(commits') = Len(commits) + 1
      /\ \A n \in 1 .. Len(commits) : commits'[n] = commits[n]
      /\ commits'[Len(commits) + 1] = new
  OBVIOUS
<1>2. ASSUME NEW n \in DOMAIN commits' PROVE Prefix(commits'[n])
  <2>1. CASE n = Len(commits) + 1
    BY <1>1, <2>1
  <2>2. CASE n \in 1 .. Len(commits)
    BY <1>1, <2>2 DEF PrefixesOnly
  <2> QED BY <1>1, <2>1, <2>2
<1> QED BY <1>1, <1>2 DEF PrefixesOnly, Prefix

LEMMA LossKeeps ==
  ASSUME commits \in Seq(Database), PrefixesOnly,
         NEW n \in DOMAIN commits, commits' = SubSeq(commits, 1, n)
  PROVE  /\ commits[n] \in Database /\ Prefix(commits[n])
         /\ commits' \in Seq(Database) /\ PrefixesOnly'
<1>1. /\ n \in 1 .. Len(commits) /\ commits' \in Seq(Database) /\ Len(commits') = n
      /\ \A i \in 1 .. n : commits'[i] = commits[i]
  OBVIOUS
<1>2. ASSUME NEW i \in DOMAIN commits' PROVE Prefix(commits'[i])
  BY <1>1 DEF PrefixesOnly
<1> QED BY <1>1, <1>2 DEF PrefixesOnly, Prefix

\* One step per action.
LEMMA StepInv == MigrationsInv /\ [MigrationsNext]_migrationVars => MigrationsInv'
<1> SUFFICES ASSUME MigrationsInv, [MigrationsNext]_migrationVars PROVE MigrationsInv'
  OBVIOUS
<1>T. /\ MigrationsTypeOK /\ db \in Database /\ commits \in Seq(Database)
      /\ Height \in Nat /\ Prefix(db) /\ PrefixesOnly
      /\ \A p \in Openers : Behind(p) /\ LetIn(p)
      /\ InHand
  BY DEF MigrationsInv, MigrationsTypeOK, Database, Height
<1>N. Nobody \notin Openers /\ Releases \subseteq Nat \ {0}
  BY MigrationsAssumption
<1>1. CASE OpenWritable
  <2>1. db' = [exists |-> TRUE, effects |-> <<>>, ledger |-> {}]
        /\ commits' = Append(commits, db')
    BY <1>1 DEF OpenWritable, Commit
  <2>2. Height = 0 /\ Height' = 0
    BY <1>1, <1>T, <2>1 DEF OpenWritable, Prefix, Height
  <2>3. db' \in Database /\ Prefix(db')
    BY <2>1 DEF Database, Prefix
  <2>4. commits' \in Seq(Database) /\ PrefixesOnly'
    BY <1>T, <2>1, <2>3, CommitKeeps
  <2> QED
    BY <1>1, <1>T, <2>1, <2>2, <2>3, <2>4
    DEF OpenWritable, MigrationsInv, MigrationsTypeOK, Behind, LetIn, InHand, Prefix
<1>2. CASE PowerFailure
  <2>1. PICK n \in DOMAIN commits : db' = commits[n] /\ commits' = SubSeq(commits, 1, n)
    BY <1>2 DEF PowerFailure
  <2>. /\ script' = NoScript /\ migrator' = [p \in Openers |-> NotMigrating]
       /\ handle' = [p \in Openers |-> 0] /\ losses' = losses + 1
    BY <1>2 DEF PowerFailure, Lose
  <2>2. /\ db' \in Database /\ commits' \in Seq(Database) /\ Height' \in Nat
        /\ Prefix(db') /\ PrefixesOnly'
    <3>1. db' \in Database /\ Prefix(db') /\ commits' \in Seq(Database) /\ PrefixesOnly'
      BY <1>T, <2>1, LossKeeps
    <3> QED BY <3>1 DEF Database, Height
  <2>3. MigrationsTypeOK'
    BY <1>T, <2>1, <2>2 DEF MigrationsTypeOK, NoScript, NotMigrating
  <2> QED
    BY <1>N, <2>1, <2>2, <2>3
    DEF MigrationsInv, Behind, LetIn, InHand, NoScript, NotMigrating, Prefix
\* Where the database is not written, the invariant is about the process that moves.
<1>3. ASSUME NEW p \in Openers, UNCHANGED <<db, commits>>,
             MigrationsTypeOK', Behind(p)', LetIn(p)', InHand',
             \A q \in Openers \ {p} : migrator'[q] = migrator[q] /\ handle'[q] = handle[q]
      PROVE  MigrationsInv'
  <2>1. Height' = Height
    BY <1>3 DEF Height
  <2>2. ASSUME NEW q \in Openers \ {p} PROVE Behind(q)' /\ LetIn(q)'
    BY <1>3, <1>T, <2>1, <2>2 DEF Behind, LetIn
  <2> QED BY <1>3, <1>T, <2>2 DEF MigrationsInv, Prefix, PrefixesOnly
<1>4. ASSUME NEW p \in Openers, NEW release \in Releases, ReadLedger(p, release)
      PROVE  MigrationsInv'
  <2> DEFINE new == [pc |-> "migrating", release |-> release, already |-> db.ledger, next |-> 1]
  <2>1. /\ migrator' = [migrator EXCEPT ![p] = new] /\ migrator[p].pc # "migrating"
        /\ UNCHANGED <<db, commits, script, handle, losses>>
    BY <1>4 DEF ReadLedger
  <2>2. db.ledger = 1 .. Height /\ db.ledger \in SUBSET Nat /\ Height' = Height
    BY <1>T, <2>1 DEF Prefix, Database, Height
  <2>3. MigrationsTypeOK'
    BY <1>T, <1>N, <2>1, <2>2 DEF MigrationsTypeOK
  <2>4. migrator'[p] = new /\ \A q \in Openers \ {p} : migrator'[q] = migrator[q]
    BY <1>T, <2>1 DEF MigrationsTypeOK
  <2>5. Behind(p)' /\ LetIn(p)'
    BY <1>T, <2>1, <2>2, <2>4 DEF Behind, LetIn
  <2>6. InHand'
    BY <1>T, <2>1, <2>4 DEF InHand
  <2> QED BY <1>3, <2>1, <2>3, <2>4, <2>5, <2>6
<1>5. ASSUME NEW p \in Openers, NEW release \in Releases, OpenReader(p, release)
      PROVE  MigrationsInv'
  <2>1. /\ handle' = [handle EXCEPT ![p] = release] /\ PendingNames(release) = {}
        /\ UNCHANGED <<db, commits, script, migrator, losses>>
    BY <1>5 DEF OpenReader
  <2>2. release \in Nat /\ release <= Height
    <3>1. release \in 1 .. release
      BY <1>N
    <3>2. release \in db.ledger
      BY <2>1, <3>1 DEF PendingNames
    <3> QED BY <1>T, <1>N, <3>2 DEF Prefix, Height
  <2>3. MigrationsTypeOK'
    BY <1>T, <2>1, <2>2 DEF MigrationsTypeOK
  <2>4. handle'[p] = release /\ \A q \in Openers \ {p} : handle'[q] = handle[q]
    BY <1>T, <2>1 DEF MigrationsTypeOK
  <2>5. Behind(p)' /\ LetIn(p)' /\ InHand'
    BY <1>T, <2>1, <2>2, <2>4 DEF Behind, LetIn, InHand, Height
  <2> QED BY <1>3, <2>1, <2>3, <2>4, <2>5
<1>6. ASSUME NEW p \in Openers, CloseReader(p) PROVE MigrationsInv'
  <2>1. /\ handle' = [handle EXCEPT ![p] = 0]
        /\ UNCHANGED <<db, commits, script, migrator, losses>>
    BY <1>6 DEF CloseReader
  <2>2. /\ MigrationsTypeOK' /\ handle'[p] = 0
        /\ \A q \in Openers \ {p} : handle'[q] = handle[q]
    BY <1>T, <2>1 DEF MigrationsTypeOK
  <2>3. Behind(p)' /\ LetIn(p)' /\ InHand'
    BY <1>T, <2>1, <2>2 DEF Behind, LetIn, InHand, Height
  <2> QED BY <1>3, <2>1, <2>2, <2>3
\* Skip, Raise (by an error or by the lock) and Finish move one process on.
<1>7. ASSUME NEW p \in Openers, NEW new,
             new \in [pc : {"idle", "migrating", "done", "failed"}, release : Nat,
                      already : SUBSET Nat, next : Nat],
             migrator' = [migrator EXCEPT ![p] = new], new.already = migrator[p].already,
             UNCHANGED <<db, commits, handle, losses>>,
             new.pc = "migrating" => new.next > 0,
             new.pc \in {"migrating", "done"} => new.next <= Height + 1,
             new.pc = "done" => new.next > new.release,
             script' \in {script, NoScript}, script'.by # p
      PROVE  MigrationsInv'
  <2>1. /\ MigrationsTypeOK' /\ migrator'[p] = new
        /\ \A q \in Openers \ {p} : migrator'[q] = migrator[q]
    BY <1>T, <1>7 DEF MigrationsTypeOK, NoScript
  <2>2. Behind(p)' /\ LetIn(p)'
    BY <1>T, <1>7, <2>1 DEF Behind, LetIn, Height
  <2>3. InHand'
    BY <1>T, <1>N, <1>7, <2>1 DEF InHand, NoScript
  <2> QED BY <1>3, <1>7, <2>1, <2>2, <2>3
<1>M. ASSUME NEW p \in Openers
      PROVE  /\ migrator[p] \in [pc : {"idle", "migrating", "done", "failed"}, release : Nat,
                                  already : SUBSET Nat, next : Nat]
             /\ Behind(p)
  BY <1>T DEF MigrationsTypeOK
<1>G. ASSUME NEW p \in Openers, Raise(p), UNCHANGED <<db, commits, handle, losses>>,
             script' \in {script, NoScript}, script'.by # p
      PROVE  MigrationsInv'
  <2> DEFINE new == [migrator[p] EXCEPT !.pc = "failed"]
  <2>1. migrator' = [migrator EXCEPT ![p] = new]
    BY <1>G DEF Raise
  <2>2. /\ new \in [pc : {"idle", "migrating", "done", "failed"}, release : Nat,
                     already : SUBSET Nat, next : Nat]
        /\ new.pc = "failed" /\ new.already = migrator[p].already
    BY <1>M
  <2> HIDE DEF new
  <2> QED BY <1>7, <1>G, <2>1, <2>2
<1>8. ASSUME NEW p \in Openers, Skip(p) PROVE MigrationsInv'
  <2> DEFINE new == [migrator[p] EXCEPT !.next = @ + 1]
  <2>1. /\ migrator' = [migrator EXCEPT ![p] = new] /\ migrator[p].pc = "migrating"
        /\ script.by # p /\ migrator[p].next \in migrator[p].already
        /\ UNCHANGED <<db, commits, script, handle, losses>>
    BY <1>8 DEF Skip, Migrating
  <2>2. migrator[p].next <= Height
    BY <1>M, <1>T, <2>1 DEF Behind
  <2>3. /\ new \in [pc : {"idle", "migrating", "done", "failed"}, release : Nat,
                     already : SUBSET Nat, next : Nat]
        /\ new.pc = "migrating" /\ new.already = migrator[p].already
        /\ new.next = migrator[p].next + 1
    BY <1>M, <2>1
  <2>4. new.next > 0 /\ new.next <= Height + 1
    BY <1>M, <1>T, <2>2, <2>3
  <2> HIDE DEF new
  <2> QED BY <1>7, <2>1, <2>3, <2>4
<1>9. ASSUME NEW p \in Openers, Locked(p) PROVE MigrationsInv'
  BY <1>G, <1>9 DEF Locked, Due, Migrating
<1>10. ASSUME NEW p \in Openers, RunStatements(p) PROVE MigrationsInv'
  <2>1. CASE Raise(p) /\ UNCHANGED script
    BY <1>G, <1>10, <2>1 DEF RunStatements, Due, Migrating
  <2>2. CASE script' = [by |-> p, migration |-> migrator[p].next] /\ UNCHANGED migrator
    <3>1. migrator[p].pc = "migrating" /\ UNCHANGED <<db, commits, migrator, handle, losses>>
      BY <1>10, <2>2 DEF RunStatements, Due, Migrating
    <3>2. MigrationsTypeOK' /\ InHand' /\ Behind(p)' /\ LetIn(p)'
      BY <1>M, <1>T, <1>N, <2>2, <3>1 DEF MigrationsTypeOK, InHand, Behind, LetIn, Height
    <3> QED BY <1>3, <3>1, <3>2
  <2> QED BY <1>10, <2>1, <2>2 DEF RunStatements
<1>11. ASSUME NEW p \in Openers, Record(p) PROVE MigrationsInv'
  <2>1. CASE script.migration \in db.ledger
    BY <1>G, <1>N, <1>11, <2>1 DEF Record, NoScript
  <2>2. CASE script.migration \notin db.ledger
    <3> DEFINE new == [migrator[p] EXCEPT !.next = @ + 1]
    <3>1. /\ script.by = p /\ db' = Migrated /\ script' = NoScript
          /\ commits' = Append(commits, Migrated)
          /\ migrator' = [migrator EXCEPT ![p] = new]
          /\ UNCHANGED <<handle, losses>>
      BY <1>11, <2>2 DEF Record, Commit
    <3>2. /\ migrator[p].next = Height + 1 /\ migrator[p].pc = "migrating"
          /\ db' \in Database /\ Prefix(db') /\ Height' = Height + 1
      BY <1>T, <2>2, <3>1, RecordExtends DEF InHand, Height
    <3>3. /\ new \in [pc : {"idle", "migrating", "done", "failed"}, release : Nat,
                       already : SUBSET Nat, next : Nat]
          /\ new.pc = "migrating" /\ new.already = migrator[p].already
          /\ new.next = Height + 2
      BY <1>M, <1>T, <3>2
    <3> HIDE DEF new
    <3>7. commits' \in Seq(Database) /\ PrefixesOnly'
      BY <1>T, <2>2, <3>1, CommitKeeps, RecordExtends
    <3>4. /\ migrator'[p] = new /\ \A q \in Openers \ {p} : migrator'[q] = migrator[q]
          /\ MigrationsTypeOK'
      BY <1>T, <3>1, <3>2, <3>3, <3>7 DEF MigrationsTypeOK, NoScript
    <3>5. ASSUME NEW q \in Openers PROVE Behind(q)' /\ LetIn(q)'
      <4>1. LetIn(q)'
        BY <1>T, <3>1, <3>2 DEF LetIn, MigrationsTypeOK
      <4>2. Behind(q)'
        <5>1. migrator'[q].already = migrator[q].already
          BY <3>3, <3>4
        <5>2. migrator'[q].already \subseteq 1 .. Height'
          BY <1>M, <1>T, <3>2, <5>1 DEF Behind
        <5>3. CASE q = p
          BY <1>T, <3>2, <3>3, <3>4, <5>2, <5>3 DEF Behind
        <5>4. CASE q # p
          BY <1>M, <1>T, <3>2, <3>4, <5>2, <5>4 DEF Behind
        <5> QED BY <5>3, <5>4
      <4> QED BY <4>1, <4>2
    <3>6. InHand'
      BY <1>N, <3>1 DEF InHand, NoScript
    <3> QED BY <3>2, <3>4, <3>5, <3>6, <3>7 DEF MigrationsInv, Prefix, PrefixesOnly
  <2> QED BY <2>1, <2>2
<1>12. ASSUME NEW p \in Openers, Finish(p) PROVE MigrationsInv'
  <2> DEFINE new == [migrator[p] EXCEPT !.pc = "done"]
  <2>1. /\ migrator' = [migrator EXCEPT ![p] = new] /\ migrator[p].pc = "migrating"
        /\ script.by # p /\ migrator[p].next > migrator[p].release
        /\ UNCHANGED <<db, commits, script, handle, losses>>
    BY <1>12 DEF Finish, Migrating
  <2>2. /\ new \in [pc : {"idle", "migrating", "done", "failed"}, release : Nat,
                     already : SUBSET Nat, next : Nat]
        /\ new.pc = "done" /\ new.already = migrator[p].already
        /\ new.next = migrator[p].next /\ new.release = migrator[p].release
    BY <1>M
  <2>3. new.next <= Height + 1 /\ new.next > new.release
    BY <1>M, <2>1, <2>2 DEF Behind
  <2> HIDE DEF new
  <2> QED BY <1>7, <2>1, <2>2, <2>3
<1>13. ASSUME NEW p \in Openers, Die(p) PROVE MigrationsInv'
  <2>1. /\ script' = IF script.by = p THEN NoScript ELSE script
        /\ migrator' = [migrator EXCEPT ![p] = NotMigrating]
        /\ handle' = [handle EXCEPT ![p] = 0]
        /\ losses' = losses + 1 /\ UNCHANGED <<db, commits>>
    BY <1>13 DEF Die, Lose
  <2>2. /\ MigrationsTypeOK' /\ migrator'[p] = NotMigrating /\ handle'[p] = 0
        /\ \A q \in Openers \ {p} : migrator'[q] = migrator[q] /\ handle'[q] = handle[q]
    BY <1>T, <2>1 DEF MigrationsTypeOK, NoScript, NotMigrating
  <2>3. Behind(p)' /\ LetIn(p)'
    BY <1>T, <2>1, <2>2 DEF Behind, LetIn, NotMigrating, Height
  <2>4. InHand'
    BY <1>N, <1>T, <2>1, <2>2 DEF InHand, NoScript
  <2> QED BY <1>3, <2>1, <2>2, <2>3, <2>4
<1>14. CASE UNCHANGED migrationVars
  BY <1>T, <1>14
  DEF migrationVars, MigrationsInv, MigrationsTypeOK, Behind, LetIn, InHand, Height, Prefix, PrefixesOnly
<1> QED
  BY <1>1, <1>2, <1>4, <1>5, <1>6, <1>8, <1>9, <1>10, <1>11, <1>12, <1>13, <1>14
  DEF MigrationsNext

-----------------------------------------------------------------------------

\* The types of the variables.
THEOREM MigrationsTypeCorrect == MigrationsSpec => []MigrationsTypeOK
<1>1. MigrationsInv => MigrationsTypeOK
  BY DEF MigrationsInv
<1> QED BY <1>1, InitInv, StepInv, PTL DEF MigrationsSpec

\* Of migrate() in any number of processes and releases, with a crash of a process
\* or of the machine at any point: the schema is a prefix of the migrations, each
\* run once and in order, and schema_migration names exactly those.
THEOREM SchemaNeverDrifts == MigrationsSpec => []SchemaIsLedger
<1>1. MigrationsInv => SchemaIsLedger
  BY DEF MigrationsInv, MigrationsTypeOK, Database, Prefix, SchemaIsLedger
<1> QED BY <1>1, InitInv, StepInv, PTL DEF MigrationsSpec

\* migrate() returns, and open_ro hands out a reader, only over every migration of
\* the release that asked, and they stay there.
THEOREM ReadyMeansMigrated == MigrationsSpec => []ReadyIsReady
<1>1. MigrationsInv => ReadyIsReady
  <2> SUFFICES ASSUME MigrationsInv, NEW p \in Openers
               PROVE  /\ migrator[p].pc = "done" => 1 .. migrator[p].release \subseteq db.ledger
                      /\ 1 .. handle[p] \subseteq db.ledger
    BY DEF ReadyIsReady
  <2>1. /\ db.ledger = 1 .. Height /\ Height \in Nat /\ handle[p] \in Nat
        /\ migrator[p].release \in Nat /\ migrator[p].next \in Nat
        /\ Behind(p) /\ LetIn(p)
    BY DEF MigrationsInv, MigrationsTypeOK, Database, Prefix, Height
  <2>2. migrator[p].pc = "done" => migrator[p].release <= Height
    BY <2>1 DEF Behind
  <2> QED BY <2>1, <2>2 DEF LetIn
<1> QED BY <1>1, InitInv, StepInv, PTL DEF MigrationsSpec

-----------------------------------------------------------------------------
(* Days and sets of numbers *)

\* Days are counted by division.
LEMMA SameDay ==
  ASSUME NEW a \in Nat, NEW b \in Nat, NEW d \in Nat \ {0}, b <= a
  PROVE  a \div d \in Nat /\ b \div d \in Nat /\ b \div d <= a \div d
  OBVIOUS

LEMMA DayIsNat ==
  ASSUME NEW a \in Nat, NEW d \in Nat \ {0}
  PROVE  a \div d \in Nat
  OBVIOUS

LEMMA LaterDay ==
  ASSUME NEW a \in Nat, NEW b \in Nat, NEW d \in Nat \ {0}, b + d <= a
  PROVE  b \div d < a \div d
  OBVIOUS

\* A nonempty set of numbers up to a bound has its Max.
LEMMA MaxOfBounded ==
  ASSUME NEW n \in Nat, NEW S \in SUBSET (1 .. n), S # {}
  PROVE  Max(S) \in S
<1> DEFINE Below == {n - x : x \in S}
<1>1. Below \subseteq Nat /\ Below # {}
  <2>1. \A x \in S : n - x \in Nat
    OBVIOUS
  <2>2. PICK s \in S : TRUE
    OBVIOUS
  <2>3. n - s \in Below
    BY <2>2
  <2> QED BY <2>1, <2>3
<1>2. \E x \in Below : \A y \in Below : ~(<<y, x>> \in OpToRel(<, Nat))
  BY <1>1, NatLessThanWellFounded, WFMin
<1>3. PICK x \in Below : \A y \in Below : ~(y < x)
  BY <1>1, <1>2 DEF OpToRel
<1>4. PICK m \in S : x = n - m
  BY <1>3
<1>5. \A y \in S : m >= y
  BY <1>3, <1>4
<1> QED BY <1>4, <1>5 DEF Max

-----------------------------------------------------------------------------
(* The token *)

\* Every token on its way to the file, and the one in it, can be refreshed.
TokensRefreshable ==
  /\ tokenFile.state = "whole" => tokenFile.token.refresh \in 1 .. granted
  /\ \A p \in Importers :
       call[p].pc \in {"refreshing", "writing"} => call[p].token.refresh \in 1 .. granted

\* The file is torn or empty by the writers' doing: whoever else is in it with a
\* writer, or has written since that one opened it, makes an overlap.
HarmNoted ==
  /\ tokenFile.state = "torn" => "overlap" \in harm
  /\ tokenFile.state = "empty" => Writers # {} \/ "death" \in harm
  /\ \A p, q \in Writers : p # q => "overlap" \in harm
  /\ Writers # {} /\ tokenFile.state # "empty" => "overlap" \in harm

\* What a look for a token makes of the call.
LEMMA TakeTokenGives ==
  ASSUME ConsoleTypeOK, NEW p \in Importers, NEW caller \in Calls, TakeToken(p, caller)
  PROVE  \E new \in Calls :
           /\ call' = [call EXCEPT ![p] = new]
           /\ new.pc \in {"idle", "consenting", "sending", "refreshing"}
           /\ \/ new = Idle
              \/ /\ new.day = caller.day /\ new.read = caller.read /\ new.force = caller.force
                 /\ new.seen = caller.seen /\ new.onDay = caller.onDay
                 /\ new.errand = caller.errand
           /\ new.pc = "refreshing" => /\ new.token = tokenFile.token
                                       /\ tokenFile.state = "whole"
<1> DEFINE Good(new) ==
           /\ new \in Calls
           /\ new.pc \in {"idle", "consenting", "sending", "refreshing"}
           /\ \/ new = Idle
              \/ /\ new.day = caller.day /\ new.read = caller.read /\ new.force = caller.force
                 /\ new.seen = caller.seen /\ new.onDay = caller.onDay
                 /\ new.errand = caller.errand
           /\ new.pc = "refreshing" => /\ new.token = tokenFile.token
                                       /\ tokenFile.state = "whole"
<1>1. Good([caller EXCEPT !.pc = "consenting"]) /\ Good([caller EXCEPT !.pc = "sending"])
  BY DEF Calls
<1>2. Good(Idle)
  BY DEF Idle, Calls, Tokens, NoToken
<1>3. tokenFile.state = "whole" =>
        Good([caller EXCEPT !.pc = "refreshing", !.token = tokenFile.token])
  BY DEF Calls, ConsoleTypeOK
<1>4. \E new : Good(new) /\ call' = [call EXCEPT ![p] = new]
  <2> HIDE DEF Good
  <2> QED BY <1>1, <1>2, <1>3 DEF TakeToken, ConsoleTypeOK
<1> QED BY <1>4

\* One step per action: where p goes next, and what it does to the file.
LEMMA TypeStep == ConsoleTypeOK /\ [ConsoleNext]_consoleVars => ConsoleTypeOK'
<1> SUFFICES ASSUME ConsoleTypeOK, [ConsoleNext]_consoleVars PROVE ConsoleTypeOK'
  OBVIOUS
<1>T. /\ call \in [Importers -> Calls] /\ store \in Seq(Pulls) /\ clock \in Nat
      /\ granted \in Nat /\ troubles \in Nat /\ tokenFile.token \in Tokens
      /\ tokenFile \in [state : {"none", "empty", "torn", "whole"}, token : Tokens]
      /\ Idle \in Calls /\ NoToken \in Tokens /\ harm \subseteq {"overlap", "death"}
  BY DEF ConsoleTypeOK, Idle, Calls, Tokens, NoToken
\* Only the call of p, which stays a call, troubles, and what is noted of the harm.
<1>1. ASSUME NEW p \in Importers, NEW new \in Calls, call' = [call EXCEPT ![p] = new],
             UNCHANGED <<clock, tokenFile, granted, store>>, troubles' \in {troubles, troubles + 1},
             harm' \in {harm, harm \cup {"death"}}
      PROVE  ConsoleTypeOK'
  BY <1>1, <1>T DEF ConsoleTypeOK
<1>2. ASSUME NEW p \in Importers, StartAuth(p) PROVE ConsoleTypeOK'
  <2>1. [Idle EXCEPT !.pc = "consenting", !.errand = "auth"] \in Calls
    BY <1>T DEF Calls
  <2> QED BY <1>1, <1>2, <2>1 DEF StartAuth
<1>3. ASSUME NEW p \in Importers, NEW token \in Tokens, Save(p, token),
             granted' \in Nat
      PROVE  ConsoleTypeOK'
  <2> DEFINE new == [call[p] EXCEPT !.pc = "writing", !.token = token]
  <2>1. new \in Calls
    BY <1>T DEF Calls
  <2>2. call' = [call EXCEPT ![p] = new]
    BY <1>3, <1>T DEF Save
  <2>3. tokenFile' \in [state : {"none", "empty", "torn", "whole"}, token : Tokens]
    BY <1>3, <1>T DEF Save
  <2> HIDE DEF new
  <2> QED BY <1>3, <1>T, <2>1, <2>2, <2>3 DEF Save, ConsoleTypeOK
<1>4. ASSUME NEW p \in Importers, Consent(p) PROVE ConsoleTypeOK'
  <2>1. [refresh |-> granted + 1, at |-> clock] \in Tokens
    BY <1>T DEF Tokens
  <2> QED BY <1>3, <1>4, <1>T, <2>1 DEF Consent
<1>5. ASSUME NEW p \in Importers, Refresh(p) PROVE ConsoleTypeOK'
  <2>1. [call[p].token EXCEPT !.at = clock] \in Tokens
    BY <1>T DEF Tokens, Calls
  <2> QED BY <1>3, <1>5, <1>T, <2>1 DEF Refresh
<1>6. ASSUME NEW p \in Importers, Refused(p) PROVE ConsoleTypeOK'
  BY <1>1, <1>6, <1>T DEF Refused, FailCall
<1>7. ASSUME NEW p \in Importers, WriteToken(p) PROVE ConsoleTypeOK'
  <2> DEFINE new == IF call[p].errand = "auth" THEN Idle
                    ELSE [call[p] EXCEPT !.pc = "sending", !.token = NoToken]
  <2>1. new \in Calls
    BY <1>T DEF Calls, NoToken, Tokens
  <2>2. call' = [call EXCEPT ![p] = new]
    BY <1>7, <1>T DEF WriteToken
  <2>3. tokenFile' \in [state : {"none", "empty", "torn", "whole"}, token : Tokens]
    <3>1. call[p].token \in Tokens
      BY <1>T DEF Calls
    <3> QED BY <1>7, <1>T, <3>1 DEF WriteToken
  <2> HIDE DEF new
  <2> QED BY <1>7, <1>T, <2>1, <2>2, <2>3 DEF WriteToken, ConsoleTypeOK
<1>8. ASSUME NEW p \in Importers, NEW force \in BOOLEAN, StartImport(p, force)
      PROVE  ConsoleTypeOK'
  <2>1. Today \in Nat
    BY <1>T, DayIsNat, SearchConsoleAssumption DEF Today
  <2>2. [Idle EXCEPT !.pc = "paging", !.errand = "import", !.day = Today, !.force = force] \in Calls
    BY <1>T, <2>1 DEF Calls
  <2> QED BY <1>1, <1>8, <2>2 DEF StartImport
<1>9. ASSUME NEW p \in Importers, NEW i \in Nat, NEW body, Take(p, i, body)
      PROVE  \E new \in Calls : call' = [call EXCEPT ![p] = new]
  <2> DEFINE read == Append(call[p].read, i)
             new == [call[p] EXCEPT !.read = read, !.seen = 0, !.onDay = FALSE,
                                    !.pc = IF body # "full" \/ Len(read) = MaxPages
                                           THEN "done" ELSE "paging"]
  <2>1. read \in Seq(Nat)
    BY <1>T DEF Calls
  <2>2. new \in Calls
    <3> HIDE DEF read
    <3> QED BY <1>T, <2>1 DEF Calls
  <2>3. call' = [call EXCEPT ![p] = new] \/ call' = [call EXCEPT ![p] = Idle]
    BY <1>9, <1>T DEF Take, FailCall
  <2> HIDE DEF new
  <2> QED BY <1>T, <2>2, <2>3
<1>10. ASSUME NEW p \in Importers, LookUp(p) PROVE ConsoleTypeOK'
  <2> DEFINE newest == Max(Stored(p))
             caller == [call[p] EXCEPT !.seen = Len(store), !.onDay = Today = call[p].day]
  <2>1. CASE Stored(p) # {} /\ Take(p, newest, store[newest].body)
    <3>1. newest \in Nat
      <4>1. Stored(p) \in SUBSET (1 .. Len(store)) /\ Len(store) \in Nat
        BY <1>T DEF Stored
      <4> HIDE DEF newest
      <4>2. Max(Stored(p)) \in Stored(p)
        BY <2>1, <4>1, MaxOfBounded
      <4> QED BY <4>1, <4>2 DEF newest
    <3> HIDE DEF newest
    <3>2. PICK new \in Calls : call' = [call EXCEPT ![p] = new]
      BY <1>9, <2>1, <3>1
    <3> QED BY <1>1, <1>10, <3>2 DEF LookUp
  <2>2. CASE TakeToken(p, caller)
    <3>1. caller \in Calls
      <4> DEFINE same == Today = call[p].day
      <4>1. same \in BOOLEAN /\ Len(store) \in Nat /\ call[p] \in Calls
        BY <1>T
      <4> HIDE DEF same
      <4>2. [call[p] EXCEPT !.seen = Len(store), !.onDay = same] \in Calls
        BY <4>1 DEF Calls
      <4> QED BY <4>2 DEF same
    <3> HIDE DEF caller
    <3>2. PICK new \in Calls : call' = [call EXCEPT ![p] = new]
      BY <2>2, <3>1, TakeTokenGives
    <3> QED BY <1>1, <1>10, <3>2 DEF LookUp
  <2> QED BY <1>10, <2>1, <2>2 DEF LookUp
<1>11. ASSUME NEW p \in Importers, NEW body \in Bodies, Receive(p, body)
       PROVE  ConsoleTypeOK'
  <2> DEFINE pull == [question |-> Question(p), body |-> body, at |-> clock,
                      forced |-> call[p].force, seen |-> call[p].seen, onDay |-> call[p].onDay]
  <2>1. pull \in Pulls
    BY <1>T DEF Pulls, Question, Questions, Calls
  <2>2. Len(store) + 1 \in Nat /\ Append(store, pull) \in Seq(Pulls)
    <3> HIDE DEF pull
    <3> QED BY <1>T, <2>1
  <2>3. PICK new \in Calls : call' = [call EXCEPT ![p] = new]
    BY <1>9, <1>11, <2>2 DEF Receive
  <2> QED BY <1>11, <1>T, <2>2, <2>3 DEF Receive, ConsoleTypeOK
<1>12. ASSUME NEW p \in Importers, Killed(p) PROVE ConsoleTypeOK'
  BY <1>1, <1>12, <1>T DEF Killed, FailCall
<1>13. CASE PassTime
  BY <1>13, <1>T DEF PassTime, ConsoleTypeOK
<1>14. CASE UNCHANGED consoleVars
  BY <1>14 DEF consoleVars, ConsoleTypeOK
<1> QED
  BY <1>2, <1>4, <1>5, <1>6, <1>7, <1>8, <1>10, <1>11, <1>12, <1>13, <1>14 DEF ConsoleNext

TokenInv == ConsoleTypeOK /\ TokensRefreshable /\ HarmNoted

LEMMA TokenInit == ConsoleInit => TokenInv
<1> SUFFICES ASSUME ConsoleInit PROVE TokenInv
  OBVIOUS
<1>1. Idle \in Calls /\ NoToken \in Tokens /\ Idle.pc = "idle"
  BY DEF Idle, Calls, Tokens, NoToken
<1>2. Writers = {}
  BY <1>1 DEF ConsoleInit, Writers
<1> QED
  BY <1>1, <1>2 DEF ConsoleInit, TokenInv, ConsoleTypeOK, TokensRefreshable, HarmNoted

LEMMA TokenStep == TokenInv /\ [ConsoleNext]_consoleVars => TokenInv'
<1> SUFFICES ASSUME TokenInv, [ConsoleNext]_consoleVars PROVE TokenInv'
  OBVIOUS
<1>T. /\ ConsoleTypeOK /\ ConsoleTypeOK' /\ TokensRefreshable /\ HarmNoted
      /\ call \in [Importers -> Calls] /\ granted \in Nat
      /\ tokenFile \in [state : {"none", "empty", "torn", "whole"}, token : Tokens]
      /\ Idle \in Calls /\ Idle.pc = "idle"
  BY TypeStep DEF TokenInv, ConsoleTypeOK, Idle, Calls, Tokens, NoToken
\* A call that does not come to write, and was not writing unless it died.
<1>1. ASSUME NEW p \in Importers, NEW new \in Calls, call' = [call EXCEPT ![p] = new],
             UNCHANGED <<tokenFile, granted>>,
             \/ call[p].pc # "writing" /\ harm' = harm
             \/ harm' = harm \cup {"death"},
             new.pc # "writing",
             new.pc = "refreshing" => new.token = tokenFile.token /\ tokenFile.state = "whole"
      PROVE  TokenInv'
  <2>1. TokensRefreshable'
    BY <1>1, <1>T DEF TokensRefreshable
  <2>2. HarmNoted'
    <3>1. Writers' = Writers \ {p} /\ (Writers' = Writers \/ "death" \in harm')
      BY <1>1, <1>T DEF Writers
    <3>2. harm \subseteq harm' /\ tokenFile' = tokenFile
      BY <1>1
    <3> QED BY <1>T, <3>1, <3>2 DEF HarmNoted
  <2> QED BY <1>T, <2>1, <2>2 DEF TokenInv
<1>2. ASSUME NEW p \in Importers, StartAuth(p) PROVE TokenInv'
  <2> DEFINE new == [Idle EXCEPT !.pc = "consenting", !.errand = "auth"]
  <2>1. new \in Calls /\ new.pc = "consenting"
    BY <1>T DEF Calls
  <2> HIDE DEF new
  <2>2. call' = [call EXCEPT ![p] = new]
    BY <1>2 DEF StartAuth, new
  <2> QED BY <1>1, <1>2, <1>T, <2>1, <2>2 DEF StartAuth
<1>3. ASSUME NEW p \in Importers, NEW token \in Tokens, Save(p, token),
             granted' \in Nat, granted <= granted', token.refresh \in 1 .. granted'
      PROVE  TokenInv'
  <2> DEFINE new == [call[p] EXCEPT !.pc = "writing", !.token = token]
  <2>1. new.pc = "writing" /\ new.token = token
    BY <1>T DEF Calls
  <2> HIDE DEF new
  <2>2. call' = [call EXCEPT ![p] = new] /\ tokenFile'.state = "empty"
    BY <1>3, <1>T DEF Save, new
  <2>3. TokensRefreshable'
    BY <1>3, <1>T, <2>1, <2>2 DEF TokensRefreshable
  <2>4. HarmNoted'
    <3>1. Writers' = Writers \cup {p}
      BY <1>T, <2>1, <2>2 DEF Writers
    <3>2. CASE Writers = {}
      BY <2>2, <3>1, <3>2 DEF HarmNoted
    <3>3. CASE Writers # {}
      <4>1. "overlap" \in harm'
        BY <1>3, <3>3 DEF Save
      <4> QED BY <2>2, <3>1, <4>1 DEF HarmNoted
    <3> QED BY <3>2, <3>3
  <2> QED BY <1>T, <2>3, <2>4 DEF TokenInv
<1>4. ASSUME NEW p \in Importers, Consent(p) PROVE TokenInv'
  <2> DEFINE token == [refresh |-> granted + 1, at |-> clock]
  <2>1. token \in Tokens /\ token.refresh = granted + 1
    BY <1>T DEF Tokens, ConsoleTypeOK
  <2> HIDE DEF token
  <2>2. Save(p, token) /\ granted' = granted + 1
    BY <1>4 DEF Consent, token
  <2> QED BY <1>3, <1>T, <2>1, <2>2
<1>5. ASSUME NEW p \in Importers, Refresh(p) PROVE TokenInv'
  <2> DEFINE token == [call[p].token EXCEPT !.at = clock]
  <2>1. token \in Tokens /\ token.refresh = call[p].token.refresh
    BY <1>T DEF Tokens, Calls, ConsoleTypeOK
  <2> HIDE DEF token
  <2>2. Save(p, token) /\ granted' = granted /\ call[p].pc = "refreshing"
    BY <1>5 DEF Refresh, token
  <2> QED BY <1>3, <1>T, <2>1, <2>2 DEF TokensRefreshable
<1>6. ASSUME NEW p \in Importers, WriteToken(p) PROVE TokenInv'
  <2> DEFINE new == IF call[p].errand = "auth" THEN Idle
                    ELSE [call[p] EXCEPT !.pc = "sending", !.token = NoToken]
  <2>1. new.pc \in {"idle", "sending"}
    BY <1>T DEF Calls
  <2>2. call' = [call EXCEPT ![p] = new] /\ call[p].pc = "writing" /\ granted' = granted
    BY <1>6, <1>T DEF WriteToken
  <2> HIDE DEF new
  <2>3. \/ tokenFile'.state = "whole" /\ tokenFile'.token = call[p].token
        \/ tokenFile'.state = "torn" /\ tokenFile.state # "empty"
    BY <1>6, <1>T DEF WriteToken
  <2>4. TokensRefreshable'
    BY <1>T, <2>1, <2>2, <2>3 DEF TokensRefreshable
  <2>5. HarmNoted'
    <3>1. /\ p \in Writers /\ Writers' = Writers \ {p} /\ harm' = harm
      BY <1>6, <1>T, <2>1, <2>2 DEF Writers, WriteToken
    <3>2. Writers' # {} => "overlap" \in harm
      BY <1>T, <3>1 DEF HarmNoted
    <3>3. tokenFile.state # "empty" => "overlap" \in harm
      BY <1>T, <3>1 DEF HarmNoted
    <3> QED BY <2>3, <3>1, <3>2, <3>3 DEF HarmNoted
  <2> QED BY <1>T, <2>4, <2>5 DEF TokenInv
<1>7. ASSUME NEW p \in Importers, Refused(p) PROVE TokenInv'
  BY <1>1, <1>7, <1>T DEF Refused, FailCall
<1>8. ASSUME NEW p \in Importers, NEW force \in BOOLEAN, StartImport(p, force) PROVE TokenInv'
  <2> DEFINE new == [Idle EXCEPT !.pc = "paging", !.errand = "import", !.day = Today,
                                 !.force = force]
  <2>1. call' = [call EXCEPT ![p] = new] /\ call[p].pc # "writing"
    BY <1>8 DEF StartImport
  <2>2. new \in Calls /\ new.pc = "paging"
    <3>1. call'[p] \in Calls
      BY <1>T DEF ConsoleTypeOK
    <3> QED BY <1>T, <2>1, <3>1 DEF Idle
  <2> HIDE DEF new
  <2> QED BY <1>1, <1>8, <1>T, <2>1, <2>2 DEF StartImport
\* A page that is taken: the call goes on, ends or fails.
<1>9. ASSUME NEW p \in Importers, NEW i, NEW body, Take(p, i, body),
             call[p].pc # "writing", UNCHANGED <<tokenFile, granted, harm>>
      PROVE  TokenInv'
  <2> DEFINE read == Append(call[p].read, i)
             new == [call[p] EXCEPT !.read = read, !.seen = 0, !.onDay = FALSE,
                                    !.pc = IF body # "full" \/ Len(read) = MaxPages
                                           THEN "done" ELSE "paging"]
  <2>1. call'[p].pc \in {"idle", "done", "paging"} /\ call'[p] \in Calls
    <3>1. new.pc \in {"done", "paging"}
      <4> HIDE DEF read
      <4> QED BY <1>T DEF Calls
    <3>2. call'[p] = Idle \/ call'[p] = new
      BY <1>9, <1>T DEF Take, FailCall
    <3> HIDE DEF new
    <3>3. call'[p] \in Calls
      BY <1>T DEF ConsoleTypeOK
    <3> QED BY <1>T, <3>1, <3>2, <3>3
  <2>2. call' = [call EXCEPT ![p] = call'[p]]
    BY <1>9, <1>T DEF Take, FailCall
  <2> QED BY <1>1, <1>9, <2>1, <2>2
<1>10. ASSUME NEW p \in Importers, LookUp(p) PROVE TokenInv'
  <2> DEFINE newest == Max(Stored(p))
             caller == [call[p] EXCEPT !.seen = Len(store), !.onDay = Today = call[p].day]
  <2>1. call[p].pc = "paging" /\ UNCHANGED <<tokenFile, granted, harm>>
    BY <1>10 DEF LookUp
  <2>2. CASE Take(p, newest, store[newest].body)
    BY <1>9, <2>1, <2>2
  <2>3. CASE TakeToken(p, caller)
    <3>1. caller \in Calls
      <4> DEFINE same == Today = call[p].day
      <4>1. same \in BOOLEAN /\ Len(store) \in Nat /\ call[p] \in Calls
        BY <1>T DEF ConsoleTypeOK
      <4> HIDE DEF same
      <4>2. [call[p] EXCEPT !.seen = Len(store), !.onDay = same] \in Calls
        BY <4>1 DEF Calls
      <4> QED BY <4>2 DEF same
    <3> HIDE DEF caller
    <3>2. PICK new \in Calls :
            /\ call' = [call EXCEPT ![p] = new]
            /\ new.pc \in {"idle", "consenting", "sending", "refreshing"}
            /\ new.pc = "refreshing" => /\ new.token = tokenFile.token
                                        /\ tokenFile.state = "whole"
      BY <1>T, <2>3, <3>1, TakeTokenGives
    <3> QED BY <1>1, <2>1, <3>2
  <2> QED BY <1>10, <2>2, <2>3 DEF LookUp
<1>11. ASSUME NEW p \in Importers, NEW body, Receive(p, body) PROVE TokenInv'
  <2>1. /\ call[p].pc = "sending" /\ UNCHANGED <<tokenFile, granted, harm>>
        /\ Take(p, Len(store) + 1, body)
    BY <1>11 DEF Receive
  <2> QED BY <1>9, <1>T, <2>1
<1>12. ASSUME NEW p \in Importers, Killed(p) PROVE TokenInv'
  <2>1. /\ call' = [call EXCEPT ![p] = Idle] /\ UNCHANGED <<tokenFile, granted>>
        /\ \/ call[p].pc # "writing" /\ harm' = harm
           \/ harm' = harm \cup {"death"}
    BY <1>12, <1>T DEF Killed, FailCall, Writers
  <2> QED BY <1>1, <1>T, <2>1
<1>13. CASE PassTime
  BY <1>13, <1>T DEF PassTime, TokenInv, TokensRefreshable, HarmNoted, Writers
<1>14. CASE UNCHANGED consoleVars
  BY <1>14, <1>T DEF consoleVars, TokenInv, TokensRefreshable, HarmNoted, Writers
<1> QED
  BY <1>2, <1>4, <1>5, <1>6, <1>7, <1>8, <1>10, <1>11, <1>12, <1>13, <1>14 DEF ConsoleNext

\* "carry the existing one forward": whatever refreshes, authorisations and deaths
\* overlap, a whole token file holds a refresh token that Google has given out.  A
\* torn one is the work of two writers in it at once, and an empty one is about to
\* be written unless its writer died: there is no other way to lose the token.
THEOREM OnlyWritersLoseTheToken == ConsoleSpec => []RefreshTokenLostOnlyByWriters
<1>1. TokenInv => RefreshTokenLostOnlyByWriters
  BY DEF TokenInv, TokensRefreshable, HarmNoted, RefreshTokenLostOnlyByWriters
<1> QED BY <1>1, TokenInit, TokenStep, PTL DEF ConsoleSpec

-----------------------------------------------------------------------------
(* The import *)

\* Every stored page is what Search Console said of its window, or a faulty body; it is
\* of the day it was stored on or of an earlier one; and on the day of its window it
\* was new when it was asked for.
StoredWell(i) ==
  /\ store[i].at <= clock
  /\ store[i].question.day <= store[i].at \div DayLength
  /\ store[i].body \in {Says(store[i].question), "bad", "hollow"}
  /\ store[i].seen < i
  /\ store[i].onDay /\ ~store[i].forced =>
       \A j \in 1 .. store[i].seen : store[j].question # store[i].question

\* The n-th page of the window of a day, as Search Console has it.
Page(day, n) == IF n <= Extent[day] THEN "full" ELSE "short"

\* What an import has read so far are the first pages of its window, all of them
\* full but for the last one of an import that is done.
ReadWell(p) ==
  LET read == call[p].read IN
  /\ call[p].day <= Today
  /\ \A n \in 1 .. Len(read) :
       /\ read[n] \in 1 .. Len(store)
       /\ store[read[n]].question = [day |-> call[p].day, page |-> n - 1]
       /\ store[read[n]].body \in {Page(call[p].day, n), "hollow"}
       /\ n < Len(read) \/ call[p].pc # "done" => store[read[n]].body = "full"
  /\ IF call[p].pc = "done"
     THEN Len(read) > 0 /\ (store[read[Len(read)]].body # "full" \/ Len(read) = MaxPages)
     ELSE Len(read) < MaxPages

\* The page an import asks the network for was not there when it looked.
AskedWell(p) ==
  call[p].pc \in {"consenting", "refreshing", "writing", "sending"} =>
    /\ call[p].seen <= Len(store)
    /\ call[p].onDay /\ ~call[p].force =>
         \A j \in 1 .. call[p].seen : store[j].question # Question(p)

ImportInv ==
  /\ ConsoleTypeOK /\ clock <= MaxClock
  /\ \A i \in 1 .. Len(store) : StoredWell(i)
  /\ \A p \in Importers : ReadWell(p) /\ AskedWell(p)

\* There is an extent for every day that comes.
LEMMA ExtentOfDay ==
  ASSUME clock \in Nat, clock <= MaxClock, NEW day \in Nat, day <= Today
  PROVE  Extent[day] \in Nat /\ Today \in Nat
<1>1. Today \in Nat /\ Today <= MaxClock \div DayLength /\ MaxClock \div DayLength \in Nat
  BY SearchConsoleAssumption, SameDay DEF Today
<1>2. day \in 0 .. MaxClock \div DayLength
  BY <1>1
<1> QED BY <1>1, <1>2, SearchConsoleAssumption

\* An idle call has read nothing.
LEMMA IdleIsWell ==
  ASSUME ImportInv, NEW p \in Importers, ConsoleTypeOK', clock' = clock, call'[p] = Idle
  PROVE  ReadWell(p)' /\ AskedWell(p)'
<1>1. clock \in Nat /\ clock <= MaxClock /\ Today \in Nat /\ Today' = Today
  BY SearchConsoleAssumption, DayIsNat DEF ImportInv, ConsoleTypeOK, Today
<1>2. Extent[0] \in Nat
  BY <1>1, ExtentOfDay
<1> QED
  BY <1>1, <1>2, SearchConsoleAssumption DEF ReadWell, AskedWell, Idle

LEMMA ImportInit == ConsoleInit => ImportInv
<1> SUFFICES ASSUME ConsoleInit PROVE ImportInv
  OBVIOUS
<1>1. /\ ConsoleTypeOK /\ clock \in Nat /\ clock <= MaxClock /\ Len(store) = 0
  BY TokenInit, SearchConsoleAssumption DEF ConsoleInit, TokenInv
<1>2. Today \in Nat
  BY <1>1, SearchConsoleAssumption, DayIsNat DEF Today
<1>3. Extent[0] \in Nat
  BY <1>1, <1>2, ExtentOfDay
<1>4. ASSUME NEW p \in Importers PROVE ReadWell(p) /\ AskedWell(p)
  <2>1. call[p] = Idle
    BY DEF ConsoleInit
  <2> QED BY <1>1, <1>2, <1>3, <2>1, SearchConsoleAssumption DEF ReadWell, AskedWell, Idle
<1> QED BY <1>1, <1>4 DEF ImportInv

LEMMA ImportStep == ImportInv /\ [ConsoleNext]_consoleVars => ImportInv'
<1> SUFFICES ASSUME ImportInv, [ConsoleNext]_consoleVars PROVE ImportInv'
  OBVIOUS
<1>T. /\ ConsoleTypeOK /\ ConsoleTypeOK' /\ clock \in Nat /\ clock <= MaxClock
      /\ call \in [Importers -> Calls] /\ call' \in [Importers -> Calls]
      /\ store \in Seq(Pulls) /\ Len(store) \in Nat
      /\ Today \in Nat /\ DayLength \in Nat \ {0} /\ MaxPages \in Nat \ {0}
      /\ \A i \in 1 .. Len(store) : StoredWell(i)
      /\ \A p \in Importers : ReadWell(p) /\ AskedWell(p)
  <2>1. ConsoleTypeOK /\ ConsoleTypeOK' /\ clock <= MaxClock
    BY TypeStep DEF ImportInv
  <2>2. clock \in Nat /\ DayLength \in Nat \ {0} /\ MaxPages \in Nat \ {0}
    BY <2>1, SearchConsoleAssumption DEF ConsoleTypeOK
  <2>3. Today \in Nat
    BY <2>2, DayIsNat DEF Today
  <2> QED BY <2>1, <2>2, <2>3 DEF ImportInv, ConsoleTypeOK
<1>P. ASSUME NEW i \in 1 .. Len(store)
      PROVE  store[i].at \in Nat /\ store[i].seen \in Nat /\ StoredWell(i)
  <2>1. store[i] \in Pulls
    BY <1>T
  <2> QED BY <1>T, <2>1 DEF Pulls
<1>C. ASSUME NEW p \in Importers
      PROVE  call[p].seen \in Nat /\ call[p].day \in Nat /\ ReadWell(p) /\ AskedWell(p)
  BY <1>T DEF Calls
\* A call only has to be looked at if it moves.
<1>1. ASSUME NEW p \in Importers, UNCHANGED <<clock, store>>, ReadWell(p)', AskedWell(p)',
             \A q \in Importers \ {p} : call'[q] = call[q]
      PROVE  ImportInv'
  <2>1. ASSUME NEW q \in Importers \ {p} PROVE ReadWell(q)' /\ AskedWell(q)'
    <3>1. call'[q] = call[q] /\ store' = store /\ clock' = clock /\ ReadWell(q) /\ AskedWell(q)
      BY <1>1, <1>T
    <3>2. ReadWell(q)'
      BY <3>1 DEF ReadWell, Today
    <3>3. AskedWell(q)'
      BY <3>1 DEF AskedWell, Today, Question
    <3> QED BY <3>2, <3>3
  <2>2. \A i \in 1 .. Len(store) : StoredWell(i)'
    BY <1>1, <1>T DEF StoredWell, Says
  <2> QED BY <1>1, <1>T, <2>1, <2>2 DEF ImportInv
<1>2. ASSUME NEW p \in Importers, call' = [call EXCEPT ![p] = Idle], UNCHANGED <<clock, store>>
      PROVE  ImportInv'
  BY <1>1, <1>2, <1>T, IdleIsWell
\* On the way to the network the import keeps its place.
<1>3. ASSUME NEW p \in Importers, NEW new \in Calls, call' = [call EXCEPT ![p] = new],
             UNCHANGED <<clock, store>>, call[p].pc # "done", new.pc # "done",
             new.day = call[p].day, new.read = call[p].read, new.force = call[p].force,
             new.pc \in {"consenting", "refreshing", "writing", "sending"} =>
               /\ new.seen <= Len(store)
               /\ new.onDay /\ ~new.force =>
                    \A j \in 1 .. new.seen : store[j].question # Question(p)
      PROVE  ImportInv'
  <2>1. call'[p] = new /\ Today' = Today
    BY <1>3, <1>T DEF Today
  <2>2. ReadWell(p)'
    <3>1. /\ ReadWell(p) /\ UNCHANGED store /\ call[p].pc # "done" /\ call'[p].pc # "done"
          /\ call'[p].day = call[p].day /\ call'[p].read = call[p].read
      BY <1>3, <1>T, <2>1
    <3> QED BY <2>1, <3>1 DEF ReadWell
  <2>3. AskedWell(p)'
    BY <1>3, <1>T, <2>1 DEF AskedWell, Question
  <2> QED BY <1>1, <1>3, <1>T, <2>2, <2>3
<1>4. ASSUME NEW p \in Importers, NEW new \in Calls, call' = [call EXCEPT ![p] = new],
             UNCHANGED <<clock, store>>, new.read = <<>>, new.day = 0 \/ new.day = Today,
             new.pc # "done", new.onDay = FALSE, new.seen = 0
      PROVE  ImportInv'
  <2>1. call'[p] = new /\ Today' = Today /\ new.day \in Nat /\ new.day <= Today
    BY <1>4, <1>T DEF Today
  <2>2. Extent[new.day] \in Nat
    BY <1>T, <2>1, ExtentOfDay
  <2>3. ReadWell(p)' /\ AskedWell(p)'
    BY <1>4, <1>T, <2>1, <2>2 DEF ReadWell, AskedWell
  <2> QED BY <1>1, <1>4, <1>T, <2>3
<1>5. ASSUME NEW p \in Importers, StartAuth(p) PROVE ImportInv'
  <2> DEFINE new == [Idle EXCEPT !.pc = "consenting", !.errand = "auth"]
  <2>1. call' = [call EXCEPT ![p] = new] /\ UNCHANGED <<clock, store>>
    BY <1>5 DEF StartAuth
  <2>2. new.read = <<>> /\ new.day = 0 /\ new.pc # "done" /\ new.onDay = FALSE /\ new.seen = 0
    BY DEF Idle
  <2> HIDE DEF new
  <2>3. new \in Calls
    BY <1>T, <2>1
  <2> QED BY <1>4, <2>1, <2>2, <2>3
<1>6. ASSUME NEW p \in Importers, NEW force \in BOOLEAN, StartImport(p, force) PROVE ImportInv'
  <2> DEFINE new == [Idle EXCEPT !.pc = "paging", !.errand = "import", !.day = Today,
                                 !.force = force]
  <2>1. call' = [call EXCEPT ![p] = new] /\ UNCHANGED <<clock, store>>
    BY <1>6 DEF StartImport
  <2>2. new.read = <<>> /\ new.day = Today /\ new.pc # "done" /\ new.onDay = FALSE /\ new.seen = 0
    BY DEF Idle
  <2> HIDE DEF new
  <2>3. new \in Calls
    BY <1>T, <2>1
  <2> QED BY <1>4, <2>1, <2>2, <2>3
<1>7. ASSUME NEW p \in Importers, NEW token \in Tokens, Save(p, token),
             call[p].pc \in {"consenting", "refreshing"}
      PROVE  ImportInv'
  <2> DEFINE new == [call[p] EXCEPT !.pc = "writing", !.token = token]
  <2>1. call' = [call EXCEPT ![p] = new] /\ UNCHANGED <<clock, store>>
    BY <1>7, <1>T DEF Save
  <2>2. /\ new.pc = "writing" /\ new.day = call[p].day /\ new.read = call[p].read
        /\ new.force = call[p].force /\ new.seen = call[p].seen /\ new.onDay = call[p].onDay
    BY <1>T DEF Calls
  <2> HIDE DEF new
  <2>3. new \in Calls
    BY <1>T, <2>1
  <2> QED BY <1>3, <1>7, <1>T, <2>1, <2>2, <2>3 DEF AskedWell
<1>8. ASSUME NEW p \in Importers, Consent(p) \/ Refresh(p) PROVE ImportInv'
  <2>1. [refresh |-> granted + 1, at |-> clock] \in Tokens
    BY <1>T DEF Tokens, ConsoleTypeOK
  <2>2. [call[p].token EXCEPT !.at = clock] \in Tokens
    <3>1. call[p].token \in Tokens /\ clock \in Nat
      BY <1>T DEF Calls
    <3> QED BY <3>1 DEF Tokens
  <2> QED BY <1>7, <1>8, <2>1, <2>2 DEF Consent, Refresh
<1>9. ASSUME NEW p \in Importers, WriteToken(p) PROVE ImportInv'
  <2>1. CASE call[p].errand = "auth"
    BY <1>2, <1>9, <1>T, <2>1 DEF WriteToken
  <2>2. CASE call[p].errand # "auth"
    <3> DEFINE new == [call[p] EXCEPT !.pc = "sending", !.token = NoToken]
    <3>1. /\ call' = [call EXCEPT ![p] = new] /\ call[p].pc = "writing"
          /\ UNCHANGED <<clock, store>>
      BY <1>9, <1>T, <2>2 DEF WriteToken
    <3>2. /\ new.pc = "sending" /\ new.day = call[p].day /\ new.read = call[p].read
          /\ new.force = call[p].force /\ new.seen = call[p].seen /\ new.onDay = call[p].onDay
      BY <1>T DEF Calls
    <3> HIDE DEF new
    <3>3. new \in Calls
      BY <1>T, <3>1
    <3> QED BY <1>3, <1>T, <3>1, <3>2, <3>3 DEF AskedWell
  <2> QED BY <2>1, <2>2
<1>10. ASSUME NEW p \in Importers, Refused(p) \/ Killed(p) PROVE ImportInv'
  BY <1>2, <1>10 DEF Refused, Killed, FailCall
\* A page of the window that is taken is the next one of it.
<1>11. ASSUME NEW p \in Importers, NEW i \in 1 .. Len(store'), Take(p, i, store'[i].body),
              call[p].pc # "done", clock' = clock, store'[i].question = Question(p),
              store'[i].body \in {Says(Question(p)), "bad", "hollow"},
              Len(store') \in Nat, Len(store) <= Len(store'),
              \A j \in 1 .. Len(store) : store'[j] = store[j]
       PROVE  ReadWell(p)' /\ AskedWell(p)'
  <2> DEFINE read == Append(call[p].read, i)
             new == [call[p] EXCEPT !.read = read, !.seen = 0, !.onDay = FALSE,
                                    !.pc = IF store'[i].body # "full" \/ Len(read) = MaxPages
                                           THEN "done" ELSE "paging"]
             day == call[p].day
             length == Len(call[p].read)
  <2>1. CASE store'[i].body = "bad"
    BY <1>11, <1>T, <2>1, IdleIsWell DEF Take, FailCall
  <2>2. CASE store'[i].body # "bad"
    <3>1. /\ call'[p] = new /\ Today' = Today
      BY <1>11, <1>T, <2>2 DEF Take, Today
    <3>2. /\ read \in Seq(Nat) /\ Len(read) = length + 1 /\ length \in Nat /\ day \in Nat
          /\ read[length + 1] = i
          /\ \A n \in 1 .. length : read[n] = call[p].read[n]
      BY <1>11, <1>T DEF Calls
    <3>3. /\ day <= Today /\ length < MaxPages /\ Extent[day] \in Nat
      <4>1. day <= Today /\ length < MaxPages
        BY <1>11, <1>T DEF ReadWell
      <4> QED BY <1>T, <3>2, <4>1, ExtentOfDay
    <3>4. /\ new.day = day /\ new.read = read
          /\ new.pc = IF store'[i].body # "full" \/ Len(read) = MaxPages
                      THEN "done" ELSE "paging"
      <4> HIDE DEF read
      <4> QED BY <1>T DEF Calls
    <3>5. /\ Question(p) = [day |-> day, page |-> length]
          /\ store'[i].body \in {IF length < Extent[day] THEN "full" ELSE "short", "hollow"}
      BY <1>11, <2>2 DEF Says, Question
    <3> HIDE DEF read, new
    <3>6. ASSUME NEW n \in 1 .. Len(read)
          PROVE  /\ read[n] \in 1 .. Len(store')
                 /\ store'[read[n]].question = [day |-> day, page |-> n - 1]
                 /\ store'[read[n]].body \in {Page(day, n), "hollow"}
                 /\ n < Len(read) \/ new.pc # "done" => store'[read[n]].body = "full"
      <4> HIDE DEF day, length
      <4>1. CASE n = length + 1
        <5>1. read[n] = i /\ n - 1 = length /\ (length < Extent[day] <=> n <= Extent[day])
          BY <3>2, <3>3, <4>1
        <5>2. i \in 1 .. Len(store') /\ store'[i].question = Question(p)
          BY <1>11
        <5>3. ~(n < Len(read)) /\ (new.pc # "done" => store'[i].body = "full")
          BY <3>2, <3>4, <4>1
        <5> QED BY <3>5, <5>1, <5>2, <5>3 DEF Page
      <4>2. CASE n \in 1 .. length
        <5>1. /\ call[p].read[n] \in 1 .. Len(store)
              /\ store[call[p].read[n]].question = [day |-> day, page |-> n - 1]
              /\ store[call[p].read[n]].body \in {Page(day, n), "hollow"}
              /\ store[call[p].read[n]].body = "full"
          <6>1. ReadWell(p) /\ call[p].pc # "done"
            BY <1>T, <1>11
          <6> QED BY <4>2, <6>1 DEF ReadWell, day, length
        <5>2. read[n] = call[p].read[n]
          BY <3>2, <4>2
        <5>3. /\ \A k \in 1 .. Len(store) : store'[k] = store[k]
              /\ Len(store) \in Nat /\ Len(store') \in Nat /\ Len(store) <= Len(store')
          BY <1>11, <1>T
        <5>4. store'[read[n]] = store[call[p].read[n]] /\ read[n] \in 1 .. Len(store')
          BY <5>1, <5>2, <5>3
        <5> QED BY <5>1, <5>4
      <4> QED BY <3>2, <4>1, <4>2
    <3>7. IF new.pc = "done"
          THEN /\ Len(read) > 0
               /\ store'[read[Len(read)]].body # "full" \/ Len(read) = MaxPages
          ELSE Len(read) < MaxPages
      <4> HIDE DEF day, length
      <4>1. MaxPages \in Nat
        BY <1>T
      <4>2. read[Len(read)] = i /\ Len(read) > 0 /\ Len(read) <= MaxPages
        BY <3>2, <3>3, <4>1
      <4> QED BY <3>2, <3>4, <4>1, <4>2
    <3>8. ReadWell(p)'
      BY <3>1, <3>3, <3>4, <3>6, <3>7 DEF ReadWell, Page
    <3>9. AskedWell(p)'
      BY <3>1, <3>4 DEF AskedWell
    <3> QED BY <3>8, <3>9
  <2> QED BY <2>1, <2>2
\* A stored page that is too old is of the window of an earlier day.
<1>12. ASSUME NEW p \in Importers, LookUp(p) PROVE ImportInv'
  <2> DEFINE newest == Max(Stored(p))
             caller == [call[p] EXCEPT !.seen = Len(store), !.onDay = Today = call[p].day]
             hit == ~call[p].force /\ Stored(p) # {} /\ FreshPage(newest)
  <2>1. /\ call[p].pc = "paging" /\ UNCHANGED <<clock, store>>
        /\ IF hit THEN Take(p, newest, store[newest].body) ELSE TakeToken(p, caller)
    BY <1>12 DEF LookUp
  <2>2. Stored(p) # {} => /\ newest \in 1 .. Len(store)
                         /\ store[newest].question = Question(p)
    <3>1. Stored(p) \in SUBSET (1 .. Len(store)) /\ Len(store) \in Nat
      BY <1>T DEF Stored
    <3> HIDE DEF newest
    <3>2. Stored(p) # {} => Max(Stored(p)) \in Stored(p)
      BY <3>1, MaxOfBounded
    <3> QED BY <3>1, <3>2 DEF Stored, newest
  <2>3. CASE hit
    <3> HIDE DEF newest
    <3>1. store[newest].body \in {Says(Question(p)), "bad", "hollow"}
      BY <1>T, <2>2, <2>3 DEF StoredWell
    <3>2. /\ newest \in 1 .. Len(store') /\ Take(p, newest, store'[newest].body)
          /\ store'[newest].question = Question(p)
          /\ store'[newest].body \in {Says(Question(p)), "bad", "hollow"}
          /\ Len(store') \in Nat /\ Len(store) <= Len(store')
          /\ \A j \in 1 .. Len(store) : store'[j] = store[j]
      BY <1>T, <2>1, <2>2, <2>3, <3>1
    <3>3. ReadWell(p)' /\ AskedWell(p)'
      BY <1>11, <2>1, <3>2
    <3>4. \A q \in Importers \ {p} : call'[q] = call[q]
      BY <1>T, <2>1, <2>3 DEF Take, FailCall
    <3> QED BY <1>1, <2>1, <3>3, <3>4
  <2>4. CASE ~hit
    <3> DEFINE same == Today = call[p].day
    <3>1. same \in BOOLEAN /\ call[p] \in Calls /\ Len(store) \in Nat
      BY <1>T
    <3>2. /\ caller \in Calls /\ caller.day = call[p].day /\ caller.read = call[p].read
          /\ caller.force = call[p].force /\ caller.seen = Len(store) /\ caller.onDay = same
      <4> HIDE DEF same
      <4> DEFINE known == [call[p] EXCEPT !.seen = Len(store), !.onDay = same]
      <4>1. /\ known \in Calls /\ known.day = call[p].day /\ known.read = call[p].read
            /\ known.force = call[p].force /\ known.seen = Len(store) /\ known.onDay = same
        BY <3>1 DEF Calls
      <4>2. caller = known
        BY DEF same
      <4> QED BY <4>1, <4>2
    <3> HIDE DEF caller
    <3>3. PICK new \in Calls :
            /\ call' = [call EXCEPT ![p] = new]
            /\ new.pc \in {"idle", "consenting", "sending", "refreshing"}
            /\ \/ new = Idle
               \/ /\ new.day = caller.day /\ new.read = caller.read /\ new.force = caller.force
                  /\ new.seen = caller.seen /\ new.onDay = caller.onDay
      BY <1>T, <2>1, <2>4, <3>2, TakeTokenGives
    <3>4. ASSUME same, ~call[p].force, NEW j \in 1 .. Len(store)
          PROVE  store[j].question # Question(p)
      <4> SUFFICES ASSUME store[j].question = Question(p) PROVE FALSE
        OBVIOUS
      <4>1. Stored(p) # {}
        BY <1>T DEF Stored
      <4>2. /\ ~FreshPage(newest) /\ newest \in 1 .. Len(store)
            /\ store[newest].question = Question(p)
        BY <2>2, <2>4, <3>4, <4>1
      <4> HIDE DEF newest
      <4>3. /\ store[newest].at \in Nat /\ call[p].day \in Nat
            /\ store[newest].question.day = call[p].day
        BY <1>P, <1>C, <4>2 DEF Question
      <4>4. store[newest].at + DayLength <= clock
        BY <1>T, <4>2, <4>3, SearchConsoleAssumption DEF FreshPage
      <4>5. /\ store[newest].at \div DayLength < Today /\ store[newest].at \div DayLength \in Nat
        BY <1>T, <4>3, <4>4, LaterDay, DayIsNat DEF Today
      <4>6. call[p].day <= store[newest].at \div DayLength
        BY <1>T, <4>2, <4>3 DEF StoredWell
      <4> QED BY <1>T, <3>4, <4>3, <4>5, <4>6
    <3>5. CASE new = Idle
      BY <1>2, <2>1, <3>3, <3>5
    <3>6. CASE new # Idle
      <4> HIDE DEF same
      <4>1. /\ new.seen = Len(store) /\ new.onDay = same /\ new.force = call[p].force
            /\ new.day = call[p].day /\ new.read = call[p].read
            /\ new.pc # "done" /\ call[p].pc # "done"
        BY <2>1, <3>2, <3>3, <3>6
      <4>2. /\ new.seen <= Len(store)
            /\ new.onDay /\ ~new.force =>
                 \A j \in 1 .. new.seen : store[j].question # Question(p)
        BY <3>1, <3>4, <4>1
      <4> QED BY <1>3, <2>1, <3>3, <4>1, <4>2
    <3> QED BY <3>5, <3>6
  <2> QED BY <2>3, <2>4
<1>13. ASSUME NEW p \in Importers, NEW body \in Bodies, Receive(p, body)
       PROVE  ImportInv'
  <2> DEFINE pull == [question |-> Question(p), body |-> body, at |-> clock,
                      forced |-> call[p].force, seen |-> call[p].seen, onDay |-> call[p].onDay]
             last == Len(store) + 1
  <2>1. /\ call[p].pc = "sending" /\ store' = Append(store, pull) /\ clock' = clock
        /\ Take(p, last, body) /\ body \in {Says(Question(p)), "bad", "hollow"}
    BY <1>13 DEF Receive
  <2>2. /\ pull.question = Question(p) /\ pull.body = body /\ pull.at = clock
        /\ pull.forced = call[p].force /\ pull.seen = call[p].seen /\ pull.onDay = call[p].onDay
    OBVIOUS
  <2> HIDE DEF pull
  <2>3. /\ Len(store') = last /\ store'[last] = pull
        /\ \A j \in 1 .. Len(store) : store'[j] = store[j]
    BY <1>T, <2>1
  <2>4. /\ last \in 1 .. Len(store') /\ Take(p, last, store'[last].body)
        /\ store'[last].question = Question(p)
        /\ store'[last].body \in {Says(Question(p)), "bad", "hollow"}
        /\ Len(store') \in Nat /\ Len(store) <= Len(store') /\ call[p].pc # "done"
    BY <1>T, <2>1, <2>2, <2>3
  <2>5. ReadWell(p)' /\ AskedWell(p)'
    BY <1>11, <2>1, <2>3, <2>4
  <2>6. ASSUME NEW q \in Importers \ {p} PROVE ReadWell(q)' /\ AskedWell(q)'
    <3>1. call'[q] = call[q] /\ call[q] \in Calls /\ Today' = Today
      BY <1>T, <2>1 DEF Take, FailCall, Today
    <3>2. ReadWell(q) /\ AskedWell(q) /\ Question(q)' = Question(q)
      BY <1>T, <3>1 DEF Question
    <3>3. ReadWell(q)'
      <4>1. /\ Len(store) \in Nat /\ Len(store') \in Nat /\ Len(store) <= Len(store')
            /\ \A k \in 1 .. Len(store) : store'[k] = store[k]
        BY <1>T, <2>3, <2>4
      <4>2. ASSUME NEW n \in 1 .. Len(call[q].read)
            PROVE  /\ call[q].read[n] \in 1 .. Len(store')
                   /\ store'[call[q].read[n]] = store[call[q].read[n]]
        <5>1. call[q].read[n] \in 1 .. Len(store)
          BY <3>2 DEF ReadWell
        <5> QED BY <4>1, <5>1
      <4>3. /\ Len(call[q].read) \in Nat
            /\ Len(call[q].read) > 0 => Len(call[q].read) \in 1 .. Len(call[q].read)
        BY <3>1 DEF Calls
      <4>4. Len(call[q].read) > 0 =>
              store'[call[q].read[Len(call[q].read)]] = store[call[q].read[Len(call[q].read)]]
        BY <4>2, <4>3
      <4>5. ASSUME NEW n \in 1 .. Len(call[q].read)
            PROVE  /\ call[q].read[n] \in 1 .. Len(store')
                   /\ store'[call[q].read[n]].question = [day |-> call[q].day, page |-> n - 1]
                   /\ store'[call[q].read[n]].body \in {Page(call[q].day, n), "hollow"}
                   /\ n < Len(call[q].read) \/ call[q].pc # "done" =>
                        store'[call[q].read[n]].body = "full"
        BY <3>2, <4>2 DEF ReadWell
      <4>6. /\ call[q].day <= Today
            /\ IF call[q].pc = "done"
               THEN /\ Len(call[q].read) > 0
                    /\ \/ store'[call[q].read[Len(call[q].read)]].body # "full"
                       \/ Len(call[q].read) = MaxPages
               ELSE Len(call[q].read) < MaxPages
        BY <3>2, <4>4 DEF ReadWell
      <4> QED BY <3>1, <4>5, <4>6 DEF ReadWell, Page
    <3>4. AskedWell(q)'
      <4>1. call[q].seen \in Nat
        BY <3>1 DEF Calls
      <4> QED BY <1>T, <2>3, <2>4, <3>1, <3>2, <4>1 DEF AskedWell
    <3> QED BY <3>3, <3>4
  <2>7. ASSUME NEW i \in 1 .. Len(store) PROVE StoredWell(i)'
    <3>1. StoredWell(i) /\ store'[i] = store[i] /\ store[i].seen \in Nat
      BY <1>P, <2>3
    <3>2. \A j \in 1 .. store[i].seen : store'[j] = store[j]
      BY <1>T, <2>3, <3>1 DEF StoredWell
    <3> QED BY <2>1, <3>1, <3>2 DEF StoredWell, Says
  <2>8. ASSUME NEW n \in Nat, n = last PROVE StoredWell(n)'
    <3>1. /\ AskedWell(p) /\ ReadWell(p) /\ call[p].seen \in Nat
      BY <1>T DEF Calls
    <3>2. call[p].seen <= Len(store) /\ call[p].seen < last
      BY <1>T, <2>1, <3>1 DEF AskedWell
    <3>3. call[p].onDay /\ ~call[p].force =>
            \A j \in 1 .. call[p].seen : store'[j].question # Question(p)
      BY <1>T, <2>1, <2>3, <3>1, <3>2 DEF AskedWell
    <3>4. Question(p).day <= clock \div DayLength
      <4>1. Question(p).day = call[p].day /\ Today = clock \div DayLength
        BY DEF Question, Today
      <4>2. call[p].day <= Today
        BY <3>1 DEF ReadWell
      <4> QED BY <4>1, <4>2
    <3>5. /\ store'[n].at = clock /\ store'[n].question = Question(p)
          /\ store'[n].seen = call[p].seen /\ store'[n].onDay = call[p].onDay
          /\ store'[n].forced = call[p].force
          /\ store'[n].body \in {Says(Question(p)), "bad", "hollow"}
      BY <2>1, <2>2, <2>3, <2>8
    <3>6. clock \in Nat /\ clock' = clock
      BY <1>T, <2>1
    <3> QED BY <2>8, <3>2, <3>3, <3>4, <3>5, <3>6 DEF StoredWell, Says
  <2>9. \A i \in 1 .. Len(store') : StoredWell(i)'
    BY <1>T, <2>3, <2>7, <2>8
  <2> QED BY <1>T, <2>1, <2>5, <2>6, <2>9 DEF ImportInv
<1>14. CASE PassTime
  <2>1. /\ clock' = clock + 1 /\ clock' <= MaxClock /\ UNCHANGED <<call, store>>
        /\ Today' \in Nat /\ Today <= Today'
    <3>1. clock' = clock + 1 /\ clock < MaxClock /\ UNCHANGED <<call, store>>
      BY <1>14 DEF PassTime
    <3>2. MaxClock \in Nat /\ clock' \in Nat /\ clock \in Nat /\ clock <= clock'
      BY <1>T, <3>1, SearchConsoleAssumption
    <3>3. Today' \in Nat /\ Today <= Today'
      BY <1>T, <3>2, SameDay DEF Today
    <3> QED BY <3>1, <3>2, <3>3
  <2>2. ASSUME NEW i \in 1 .. Len(store) PROVE StoredWell(i)'
    <3>1. StoredWell(i) /\ store[i].at \in Nat
      BY <1>P
    <3> QED BY <1>T, <2>1, <3>1 DEF StoredWell, Says
  <2>3. ASSUME NEW p \in Importers PROVE ReadWell(p)' /\ AskedWell(p)'
    <3>1. ReadWell(p) /\ AskedWell(p) /\ call[p].day \in Nat
      BY <1>C
    <3> QED BY <1>T, <2>1, <3>1 DEF ReadWell, AskedWell, Question
  <2> QED BY <1>T, <2>1, <2>2, <2>3 DEF ImportInv
<1>15. CASE UNCHANGED consoleVars
  BY <1>15, <1>T
  DEF consoleVars, ImportInv, StoredWell, ReadWell, AskedWell, Today, Question, Says
<1> QED
  BY <1>5, <1>6, <1>8, <1>9, <1>10, <1>12, <1>13, <1>14, <1>15 DEF ConsoleNext

\* An import that ends, in whatever company, over whatever midnight and from
\* whatever pages others left, has read its window from the first page on, every one
\* but the last of them full; and it ends on the window's short page, at MAX_PAGES or
\* on a hollow body, which is thus the only hole there is.
THEOREM ImportHolesAreHollow == ConsoleSpec => []HolesOnlyFromHollowPages
<1>1. ImportInv => HolesOnlyFromHollowPages
  <2> SUFFICES ASSUME ImportInv, NEW p \in Importers, call[p].pc = "done"
               PROVE  LET read == call[p].read
                          full == Extent[call[p].day]
                          Body(n) == store[read[n]].body IN
                      /\ read # <<>>
                      /\ \A n \in DOMAIN read :
                           store[read[n]].question = [day |-> call[p].day, page |-> n - 1]
                      /\ \A n \in DOMAIN read : n < Len(read) => Body(n) = "full" /\ n <= full
                      /\ \/ Body(Len(read)) = "short" /\ Len(read) = full + 1
                         \/ Body(Len(read)) = "full" /\ Len(read) = MaxPages /\ full >= MaxPages
                         \/ Body(Len(read)) = "hollow"
    BY DEF HolesOnlyFromHollowPages
  <2> DEFINE read == call[p].read
             full == Extent[call[p].day]
             Body(n) == store[read[n]].body
             length == Len(read)
  <2>1. ReadWell(p) /\ length \in Nat /\ full \in Nat /\ MaxPages \in Nat
    <3>1. ReadWell(p) /\ read \in Seq(Nat) /\ call[p].day \in Nat /\ call[p].day <= Today
      BY DEF ImportInv, ConsoleTypeOK, Calls, ReadWell
    <3>2. full \in Nat
      BY <3>1, ExtentOfDay DEF ImportInv, ConsoleTypeOK
    <3> QED BY <3>1, <3>2, SearchConsoleAssumption
  <2>2. ASSUME NEW n \in 1 .. length
        PROVE  /\ store[read[n]].question = [day |-> call[p].day, page |-> n - 1]
               /\ Body(n) \in {IF n <= full THEN "full" ELSE "short", "hollow"}
               /\ n < length => Body(n) = "full"
    BY <2>1 DEF ReadWell, Page
  <2>3. length > 0 /\ (Body(length) # "full" \/ length = MaxPages)
    BY <2>1 DEF ReadWell
  <2>D. DOMAIN read = 1 .. length /\ (length > 0 => read # <<>>)
    BY DEF ImportInv, ConsoleTypeOK, Calls
  <2> HIDE DEF read, full, Body, length
  <2>4. \A n \in 1 .. length : n < length => Body(n) = "full" /\ n <= full
    BY <2>1, <2>2
  <2>5. length - 1 <= full
    <3>1. CASE length = 1
      BY <2>1, <3>1
    <3>2. CASE length > 1
      <4>1. length - 1 \in 1 .. length /\ length - 1 < length
        BY <2>1, <3>2
      <4> QED BY <2>4, <4>1
    <3> QED BY <2>1, <2>3, <3>1, <3>2
  <2>6. \/ Body(length) = "short" /\ length = full + 1
        \/ Body(length) = "full" /\ length = MaxPages /\ full >= MaxPages
        \/ Body(length) = "hollow"
    <3>1. length \in 1 .. length
      BY <2>1, <2>3
    <3>2. Body(length) \in {IF length <= full THEN "full" ELSE "short", "hollow"}
      BY <2>2, <3>1
    <3>3. CASE Body(length) = "hollow"
      BY <3>3
    <3>4. CASE Body(length) # "hollow" /\ length <= full
      <4>1. Body(length) = "full"
        BY <3>2, <3>4
      <4>2. length = MaxPages
        BY <2>3, <4>1
      <4> QED BY <2>1, <3>4, <4>1, <4>2
    <3>5. CASE Body(length) # "hollow" /\ ~(length <= full)
      <4>1. Body(length) = "short"
        BY <3>2, <3>5
      <4>2. length = full + 1
        BY <2>1, <2>5, <3>5
      <4> QED BY <4>1, <4>2
    <3> QED BY <3>3, <3>4, <3>5
  <2> QED BY <2>2, <2>3, <2>4, <2>6, <2>D DEF read, full, Body, length
<1> QED BY <1>1, ImportInit, ImportStep, PTL DEF ConsoleSpec

\* "an import interrupted at page 7 resumes without re-reading pages 1 to 6": where
\* the TTL is at least a day, no page of a day's window is asked for again on that
\* day, unless it is forced.
THEOREM ResumeCostsNothing == ConsoleSpec => []ResumedNotReread
<1>1. ImportInv => ResumedNotReread
  <2> SUFFICES ASSUME ImportInv, NEW j \in DOMAIN store, store[j].onDay, ~store[j].forced,
                      NEW i \in 1 .. store[j].seen
               PROVE  store[i].question # store[j].question
    BY DEF ResumedNotReread
  <2>1. StoredWell(j)
    BY DEF ImportInv, ConsoleTypeOK
  <2> QED BY <2>1 DEF StoredWell
<1> QED BY <1>1, ImportInit, ImportStep, PTL DEF ConsoleSpec

-----------------------------------------------------------------------------
(* The limiter *)

\* Send times are in order, and what was dropped had left the window.
Ordered ==
  /\ \A i \in DOMAIN sent : sent[i] <= time
  /\ \A i, j \in DOMAIN sent : i <= j => sent[i] <= sent[j]

DroppedIsOld == \A i \in 1 .. dropped : time - sent[i] >= Window

\* The deque never outgrows the limit.
DequeFits == Len(sent) - dropped <= PerMinute

\* What a sleeper waits for: the send e at the head of the deque when it went to
\* sleep is out of the window when it wakes.
Awaits(t, e) ==
  /\ sent[e] + Window <= task[t].until
  /\ task[t].began + task[t].sleeps <= e + PerMinute
  /\ e + PerMinute <= Len(sent) + 1

Sleeping(t) ==
  /\ task[t].sleeps >= 1
  /\ task[t].sleeps = 1 => task[t].waited <= Window
  /\ \E e \in DOMAIN sent : Awaits(t, e)

TaskInv(t) ==
  /\ task[t].pc = "asking" => /\ task[t].waited = 0 /\ task[t].sleeps = 0
                              /\ task[t].began <= Len(sent)
  /\ task[t].pc = "asleep" => Sleeping(t)
  /\ task[t].pc = "timed_out" => Len(sent) >= task[t].began + 2

IInv ==
  /\ TypeOK /\ Ordered /\ DroppedIsOld /\ DequeFits /\ WindowRespected
  /\ \A t \in Tasks : TaskInv(t)

-----------------------------------------------------------------------------

\* A nonempty set of naturals has its Min.
LEMMA MinOfNaturals ==
  ASSUME NEW S, S \subseteq Nat, S # {}
  PROVE  Min(S) \in S /\ \A x \in S : Min(S) <= x
<1>1. \E x \in S : \A y \in S : ~(<<y, x>> \in OpToRel(<, Nat))
  <2> DEFINE less == OpToRel(<, Nat)
  <2>1. IsWellFoundedOn(less, Nat)
    BY NatLessThanWellFounded
  <2> HIDE DEF less
  <2>2. \E x \in S : \A y \in S : ~(<<y, x>> \in less)
    BY <2>1, WFMin
  <2> QED
    BY <2>2 DEF less
<1>2. PICK m \in S : \A y \in S : ~(<<y, m>> \in OpToRel(<, Nat))
  BY <1>1
<1>3. \A y \in S : m <= y
  <2> SUFFICES ASSUME NEW y \in S PROVE m <= y
    OBVIOUS
  <2>1. ~(y < m)
    BY <1>2 DEF OpToRel
  <2> QED
    BY <2>1
<1> QED
  BY <1>2, <1>3 DEF Min

\* What the popleft loop does to the deque.
LEMMA SlidPops ==
  ASSUME TypeOK
  PROVE  /\ Slid \in dropped .. Len(sent)
         /\ \A i \in dropped + 1 .. Slid : time - sent[i] >= Window
         /\ Slid < Len(sent) => time - sent[Slid + 1] < Window
<1> USE RateLimiterAssumption
<1>t. time \in Nat /\ sent \in Seq(Nat) /\ dropped \in 0 .. Len(sent) /\ Len(sent) \in Nat
  BY DEF TypeOK
<1>1. \A i \in 1 .. Len(sent) : sent[i] \in Nat
  BY <1>t
<1>2. CASE Live = {}
  <2>1. Slid = Len(sent)
    BY <1>2 DEF Slid
  <2>2. \A i \in dropped + 1 .. Len(sent) : time - sent[i] >= Window
    <3> SUFFICES ASSUME NEW i \in dropped + 1 .. Len(sent) PROVE time - sent[i] >= Window
      OBVIOUS
    <3>1. ~(time - sent[i] < Window)
      BY <1>2 DEF Live
    <3> QED
      BY <1>t, <1>1, <3>1
  <2> HIDE DEF Slid
  <2> QED
    BY <1>t, <2>1, <2>2
<1>3. CASE Live # {}
  <2> DEFINE m == Min(Live)
  <2>1. Live \subseteq Nat
    BY <1>t DEF Live
  <2>2. m \in Live /\ \A x \in Live : m <= x
    BY <1>3, <2>1, MinOfNaturals
  <2>3. Slid = m - 1
    BY <1>3 DEF Slid
  <2>4. m \in dropped + 1 .. Len(sent) /\ time - sent[m] < Window
    BY <2>2 DEF Live
  <2> HIDE DEF m
  <2>5. \A i \in dropped + 1 .. m - 1 : time - sent[i] >= Window
    <3> SUFFICES ASSUME NEW i \in dropped + 1 .. m - 1 PROVE time - sent[i] >= Window
      OBVIOUS
    <3>1. i \notin Live /\ i \in dropped + 1 .. Len(sent)
      BY <1>t, <2>2, <2>4
    <3> QED
      BY <1>t, <1>1, <3>1 DEF Live
  <2> QED
    BY <1>t, <2>3, <2>4, <2>5
<1> QED
  BY <1>2, <1>3

\* A pass that finds no slot leaves a full deque, whose head is in the window.
LEMMA FullAfterSlide ==
  ASSUME IInv, ~HasSlot
  PROVE  /\ Slid + 1 \in DOMAIN sent
         /\ Len(sent) = Slid + PerMinute
         /\ Delay \in 1 .. Window
         /\ time + Delay = sent[Slid + 1] + Window
<1> USE RateLimiterAssumption
<1>t. time \in Nat /\ sent \in Seq(Nat) /\ dropped \in 0 .. Len(sent) /\ Len(sent) \in Nat
  BY DEF IInv, TypeOK
<1>1. /\ Slid \in dropped .. Len(sent)
      /\ Slid < Len(sent) => time - sent[Slid + 1] < Window
  BY SlidPops DEF IInv
<1>2. Len(sent) - Slid = PerMinute
  BY <1>t, <1>1 DEF HasSlot, IInv, DequeFits
<1>3. Slid + 1 \in DOMAIN sent /\ sent[Slid + 1] \in Nat /\ sent[Slid + 1] <= time
  <2> DEFINE k == Slid + 1
  <2>1. k \in 1 .. Len(sent)
    BY <1>t, <1>1, <1>2
  <2>2. k \in DOMAIN sent /\ sent[k] \in Nat
    BY <1>t, <2>1
  <2>3. sent[k] <= time
    BY <2>2 DEF IInv, Ordered
  <2> QED
    BY <2>2, <2>3
<1> QED
  BY <1>t, <1>1, <1>2, <1>3 DEF Delay

-----------------------------------------------------------------------------

LEMMA InitEstablishes == Init => IInv
<1> USE RateLimiterAssumption
<1> SUFFICES ASSUME Init PROVE IInv
  OBVIOUS
<1>1. IdleTask \in Task
  BY DEF IdleTask, Task
<1>2. TypeOK
  BY <1>1 DEF Init, TypeOK
<1>3. \A t \in Tasks : TaskInv(t)
  BY DEF Init, IdleTask, TaskInv
<1> QED
  BY <1>2, <1>3 DEF Init, IInv, Ordered, DroppedIsOld, DequeFits, WindowRespected

\* Sends are only ever added, so what a task waits for stays there.
LEMMA OthersKeep ==
  ASSUME IInv, NEW t \in Tasks, task'[t] = task[t], sent' \in Seq(Nat),
         Len(sent') >= Len(sent), \A i \in DOMAIN sent : sent'[i] = sent[i]
  PROVE  TaskInv(t)'
<1>t. sent \in Seq(Nat) /\ task \in [Tasks -> Task]
  BY DEF IInv, TypeOK
<1>n. /\ Len(sent) \in Nat /\ Len(sent') \in Nat
      /\ task[t].began \in Nat /\ task[t].sleeps \in Nat /\ task[t].waited \in Nat
  BY <1>t DEF Task
<1>1. TaskInv(t)
  BY DEF IInv
<1>2. task[t].pc = "asleep" => Sleeping(t)'
  <2> SUFFICES ASSUME task[t].pc = "asleep" PROVE Sleeping(t)'
    OBVIOUS
  <2>1. PICK e \in DOMAIN sent : Awaits(t, e)
    BY <1>1 DEF TaskInv, Sleeping
  <2>2. e \in DOMAIN sent' /\ e \in Nat
    BY <1>t
  <2>3. Awaits(t, e)'
    BY <1>n, <2>1, <2>2, RateLimiterAssumption DEF Awaits
  <2> QED
    BY <1>1, <2>2, <2>3 DEF Sleeping, TaskInv
<1> QED
  BY <1>n, <1>1, <1>2 DEF TaskInv

-----------------------------------------------------------------------------

LEMMA AskStep == ASSUME IInv, NEW t \in Tasks, Ask(t) PROVE IInv'
<1>t. /\ UNCHANGED <<time, sent, dropped>> /\ sent \in Seq(Nat) /\ Len(sent) \in Nat
      /\ task \in [Tasks -> Task]
  BY DEF IInv, TypeOK, Ask
<1> DEFINE new == [IdleTask EXCEPT !.pc = "asking", !.began = Len(sent)]
<1>1. new \in Task /\ task' = [task EXCEPT ![t] = new]
  BY <1>t DEF Ask, IdleTask, Task
<1>2. /\ new.pc = "asking" /\ new.waited = 0 /\ new.sleeps = 0 /\ new.began = Len(sent)
  BY DEF IdleTask
<1> HIDE DEF new
<1>3. TypeOK'
  BY <1>t, <1>1 DEF IInv, TypeOK
<1>4. \A u \in Tasks \ {t} : TaskInv(u)'
  BY <1>t, <1>1, OthersKeep
<1>5. TaskInv(t)'
  BY <1>t, <1>1, <1>2 DEF TaskInv
<1>6. (Ordered /\ DroppedIsOld /\ DequeFits /\ WindowRespected)'
  BY <1>t DEF IInv, Ordered, DroppedIsOld, DequeFits, WindowRespected
<1> QED
  BY <1>3, <1>4, <1>5, <1>6 DEF IInv

\* A pass drops what SlidPops says, and nothing else moves with it.
LEMMA SlideKeeps ==
  ASSUME IInv, time' = time, sent' = sent, dropped' = Slid
  PROVE  /\ dropped' \in 0 .. Len(sent)
         /\ (Ordered /\ DroppedIsOld /\ DequeFits /\ WindowRespected)'
<1> USE RateLimiterAssumption
<1>t. time \in Nat /\ sent \in Seq(Nat) /\ dropped \in 0 .. Len(sent) /\ Len(sent) \in Nat
  BY DEF IInv, TypeOK
<1>1. /\ Slid \in dropped .. Len(sent)
      /\ \A i \in dropped + 1 .. Slid : time - sent[i] >= Window
  BY SlidPops DEF IInv
<1> HIDE DEF Slid
<1>2. \A i \in 1 .. dropped : time - sent[i] >= Window
  BY DEF IInv, DroppedIsOld
<1>3. \A i \in 1 .. Slid : time - sent[i] >= Window
  BY <1>t, <1>1, <1>2
<1>4. DequeFits'
  BY <1>t, <1>1 DEF IInv, DequeFits
<1> QED
  BY <1>t, <1>1, <1>3, <1>4 DEF IInv, Ordered, DroppedIsOld, WindowRespected

LEMMA GrantStep == ASSUME IInv, NEW t \in Tasks, Grant(t) PROVE IInv'
<1> USE RateLimiterAssumption
<1>t. /\ time \in Nat /\ sent \in Seq(Nat) /\ dropped \in 0 .. Len(sent)
      /\ Len(sent) \in Nat /\ task \in [Tasks -> Task]
  BY DEF IInv, TypeOK
<1>g. time' = time /\ dropped' = Slid /\ sent' = Append(sent, time) /\ HasSlot
      /\ task' = [task EXCEPT ![t] = IdleTask]
  BY DEF Grant
<1> DEFINE n == Len(sent)
<1>1. /\ sent' \in Seq(Nat) /\ Len(sent') = n + 1 /\ DOMAIN sent = 1 .. n
      /\ DOMAIN sent' = 1 .. n + 1
      /\ \A i \in 1 .. n : sent'[i] = sent[i] /\ sent[i] \in Nat
      /\ sent'[n + 1] = time
  BY <1>t, <1>g
<1>2. /\ Slid \in dropped .. n
      /\ \A i \in dropped + 1 .. Slid : time - sent[i] >= Window
  BY SlidPops DEF IInv
<1>3. n - Slid < PerMinute
  BY <1>g DEF HasSlot
<1> HIDE DEF Slid, HasSlot
<1>4. \A i \in 1 .. Slid : time - sent[i] >= Window
  <2>1. \A i \in 1 .. dropped : time - sent[i] >= Window
    BY DEF IInv, DroppedIsOld
  <2> QED
    BY <1>t, <1>2, <2>1
<1>5. TypeOK'
  <2>1. IdleTask \in Task
    BY DEF IdleTask, Task
  <2> QED
    BY <1>t, <1>g, <1>1, <1>2, <2>1 DEF TypeOK
<1>6. Ordered'
  <2>1. \A i \in 1 .. n : sent[i] <= time
    BY <1>1 DEF IInv, Ordered
  <2>2. \A i, j \in 1 .. n : i <= j => sent[i] <= sent[j]
    BY <1>1 DEF IInv, Ordered
  <2>3. \A i \in 1 .. n + 1 : i = n + 1 \/ i \in 1 .. n
    BY <1>t
  <2>4. \A i \in 1 .. n + 1 : sent'[i] <= time
    BY <1>t, <1>1, <2>1, <2>3
  <2>5. \A i, j \in 1 .. n + 1 : i <= j => sent'[i] <= sent'[j]
    <3> SUFFICES ASSUME NEW i \in 1 .. n + 1, NEW j \in 1 .. n + 1, i <= j
                 PROVE  sent'[i] <= sent'[j]
      OBVIOUS
    <3>1. CASE j = n + 1
      BY <1>1, <2>4, <3>1
    <3>2. CASE j \in 1 .. n
      <4>1. i \in 1 .. n
        BY <1>t, <3>2
      <4> QED
        BY <1>1, <2>2, <3>2, <4>1
    <3> QED
      BY <2>3, <3>1, <3>2
  <2> QED
    BY <1>g, <1>1, <2>4, <2>5 DEF Ordered
<1>7. DroppedIsOld'
  <2>1. \A i \in 1 .. Slid : sent'[i] = sent[i]
    BY <1>t, <1>1, <1>2
  <2> QED
    BY <1>g, <1>4, <2>1 DEF DroppedIsOld
<1>8. DequeFits'
  BY <1>t, <1>g, <1>1, <1>2, <1>3 DEF DequeFits
<1>9. WindowRespected'
  <2> SUFFICES ASSUME NEW i \in 1 .. n + 1, NEW j \in 1 .. n + 1, j >= i + PerMinute
               PROVE  sent'[j] - sent'[i] >= Window
    BY <1>1 DEF WindowRespected
  <2>1. CASE j = n + 1
    <3>1. i \in 1 .. Slid /\ i \in 1 .. n
      BY <1>t, <1>2, <1>3, <2>1
    <3> QED
      BY <1>1, <1>4, <2>1, <3>1
  <2>2. CASE j # n + 1
    <3>1. i \in 1 .. n /\ j \in 1 .. n
      BY <1>t, <2>2
    <3>2. sent[j] - sent[i] >= Window
      BY <1>1, <3>1 DEF IInv, WindowRespected
    <3> QED
      BY <1>1, <3>1, <3>2
  <2> QED
    BY <2>1, <2>2
<1>10. \A u \in Tasks \ {t} : TaskInv(u)'
  BY <1>t, <1>g, <1>1, OthersKeep
<1>11. TaskInv(t)'
  BY <1>t, <1>g DEF TaskInv, IdleTask
<1> QED
  BY <1>5, <1>6, <1>7, <1>8, <1>9, <1>10, <1>11 DEF IInv

\* What a task that finds no slot has behind it: one overtaking per sleep.
LEMMA OvertakenBefore ==
  ASSUME IInv, NEW t \in Tasks, Looping(t), ~HasSlot
  PROVE  /\ task[t].began + task[t].sleeps <= Len(sent)
         /\ task[t].sleeps = 0 => task[t].waited = 0
         /\ task[t].sleeps = 1 => task[t].waited <= Window
<1> USE RateLimiterAssumption
<1>t. /\ time \in Nat /\ sent \in Seq(Nat) /\ dropped \in 0 .. Len(sent)
      /\ Len(sent) \in Nat /\ task \in [Tasks -> Task]
  BY DEF IInv, TypeOK
<1>n. /\ task[t].began \in Nat /\ task[t].sleeps \in Nat /\ task[t].waited \in Nat
      /\ task[t].until \in Nat
  BY <1>t DEF Task
<1>1. TaskInv(t)
  BY DEF IInv
<1>2. CASE task[t].pc = "asking"
  BY <1>n, <1>1, <1>2 DEF TaskInv
<1>3. CASE task[t].pc = "asleep" /\ time >= task[t].until
  <2>1. PICK e \in DOMAIN sent : Awaits(t, e)
    BY <1>1, <1>3 DEF TaskInv, Sleeping
  <2>2. e \in 1 .. Len(sent) /\ sent[e] \in Nat
    BY <1>t
  <2>3. time - sent[e] >= Window
    <3>1. sent[e] + Window <= task[t].until
      BY <2>1 DEF Awaits
    <3>2. Window \in Nat
      OBVIOUS
    <3> QED
      BY <1>t, <1>n, <1>3, <2>2, <3>1, <3>2
  <2>4. /\ Slid + 1 \in DOMAIN sent /\ Len(sent) = Slid + PerMinute
        /\ Delay \in 1 .. Window /\ time + Delay = sent[Slid + 1] + Window
    BY FullAfterSlide
  <2>5. e <= Slid
    <3>1. sent[Slid + 1] \in Nat
      BY <1>t, <2>4
    <3>2. sent[e] < sent[Slid + 1]
      BY <1>t, <2>2, <2>3, <2>4, <3>1
    <3>3. ~(Slid + 1 <= e)
      BY <2>1, <2>2, <2>4, <3>1, <3>2 DEF IInv, Ordered
    <3>4. Slid \in Int
      BY SlidPops, <1>t DEF IInv
    <3> QED
      BY <2>2, <3>3, <3>4
  <2>6. Slid \in Int
    BY SlidPops, <1>t DEF IInv
  <2>7. task[t].began + task[t].sleeps <= Len(sent)
    <3>1. task[t].began + task[t].sleeps <= e + PerMinute
      BY <2>1 DEF Awaits
    <3>2. PerMinute \in Nat
      OBVIOUS
    <3>3. Len(sent) = Slid + PerMinute
      BY <2>4
    <3>4. e + PerMinute <= Slid + PerMinute
      BY <2>2, <2>5, <2>6, <3>2
    <3>5. /\ task[t].began + task[t].sleeps \in Int /\ e + PerMinute \in Int
          /\ Slid + PerMinute \in Int
      BY <1>n, <2>2, <2>6, <3>2
    <3> QED
      BY <3>1, <3>3, <3>4, <3>5
  <2> QED
    BY <1>1, <1>3, <1>n, <2>7 DEF TaskInv, Sleeping
<1> QED
  BY <1>2, <1>3 DEF Looping

LEMMA SleepStep == ASSUME IInv, NEW t \in Tasks, Sleep(t) PROVE IInv'
<1> USE RateLimiterAssumption
<1>t. /\ time \in Nat /\ sent \in Seq(Nat) /\ dropped \in 0 .. Len(sent)
      /\ Len(sent) \in Nat /\ task \in [Tasks -> Task]
  BY DEF IInv, TypeOK
<1>n. /\ task[t].began \in Nat /\ task[t].sleeps \in Nat /\ task[t].waited \in Nat
  BY <1>t DEF Task
<1>g. time' = time /\ dropped' = Slid /\ sent' = sent /\ ~HasSlot /\ Looping(t)
      /\ task' = [task EXCEPT ![t].pc = "asleep", ![t].waited = @ + Delay,
                              ![t].until = time + Delay, ![t].sleeps = @ + 1]
  BY DEF Sleep
<1>1. /\ Slid + 1 \in DOMAIN sent /\ Len(sent) = Slid + PerMinute
      /\ Delay \in 1 .. Window /\ time + Delay = sent[Slid + 1] + Window
  BY <1>g, FullAfterSlide
<1>2. Slid \in Nat
  BY SlidPops, <1>t DEF IInv
<1>3. /\ task[t].began + task[t].sleeps <= Len(sent)
      /\ task[t].sleeps = 0 => task[t].waited = 0
      /\ task[t].sleeps = 1 => task[t].waited <= Window
  BY <1>g, OvertakenBefore
<1>4. /\ dropped' \in 0 .. Len(sent)
      /\ (Ordered /\ DroppedIsOld /\ DequeFits /\ WindowRespected)'
  BY <1>g, SlideKeeps
<1> DEFINE d == Delay
<1>e. PICK e \in DOMAIN sent : e = Slid + 1
  BY <1>1
<1>5. d \in Nat /\ d <= Window /\ e \in DOMAIN sent /\ e \in Nat
  BY <1>1, <1>2, <1>e
<1>6. /\ task'[t].pc = "asleep" /\ task'[t].waited = task[t].waited + d
      /\ task'[t].until = time + d /\ task'[t].sleeps = task[t].sleeps + 1
      /\ task'[t].began = task[t].began
      /\ \A u \in Tasks \ {t} : task'[u] = task[u]
      /\ task' \in [Tasks -> Task]
  <2>1. task[t] \in Task /\ task[t].waited + d \in Nat /\ time + d \in Nat
        /\ task[t].sleeps + 1 \in Nat
    BY <1>t, <1>n, <1>5
  <2>2. task' = [task EXCEPT ![t] = [task[t] EXCEPT !.pc = "asleep", !.waited = task[t].waited + d,
                              !.until = time + d, !.sleeps = task[t].sleeps + 1]]
    BY <1>t, <1>g
  <2> HIDE DEF d
  <2> QED
    BY <1>t, <2>1, <2>2 DEF Task
<1>7. TypeOK'
  BY <1>t, <1>g, <1>4, <1>6 DEF TypeOK
<1>8. \A u \in Tasks \ {t} : TaskInv(u)'
  BY <1>t, <1>g, <1>6, OthersKeep
<1>9. Awaits(t, e)'
  <2>1. sent'[e] + Window <= task'[t].until
    <3>1. sent'[e] + Window = time + d /\ task'[t].until = time + d
      BY <1>g, <1>1, <1>6, <1>e
    <3>2. time + d \in Int
      BY <1>t, <1>5
    <3> QED
      BY <3>1, <3>2
  <2>2. e + PerMinute = Len(sent) + 1
    BY <1>1, <1>2, <1>e
  <2>3. task'[t].began + task'[t].sleeps <= e + PerMinute
    BY <1>n, <1>t, <1>3, <1>6, <2>2
  <2>4. e + PerMinute <= Len(sent) + 1
    BY <1>t, <2>2
  <2> QED
    BY <1>g, <2>1, <2>3, <2>4 DEF Awaits
<1>10. TaskInv(t)'
  <2>1. task'[t].sleeps >= 1 /\ (task'[t].sleeps = 1 => task'[t].waited <= Window)
    BY <1>n, <1>3, <1>5, <1>6
  <2>2. e \in DOMAIN sent'
    BY <1>g, <1>5
  <2>3. Sleeping(t)'
    BY <1>9, <2>1, <2>2 DEF Sleeping
  <2> QED
    BY <1>6, <2>3 DEF TaskInv
<1> QED
  BY <1>4, <1>7, <1>8, <1>10 DEF IInv

LEMMA GiveUpStep == ASSUME IInv, NEW t \in Tasks, GiveUp(t) PROVE IInv'
<1> USE RateLimiterAssumption
<1>t. /\ time \in Nat /\ sent \in Seq(Nat) /\ dropped \in 0 .. Len(sent)
      /\ Len(sent) \in Nat /\ task \in [Tasks -> Task]
  BY DEF IInv, TypeOK
<1>n. /\ task[t].began \in Nat /\ task[t].sleeps \in Nat /\ task[t].waited \in Nat
  BY <1>t DEF Task
<1>g. time' = time /\ dropped' = Slid /\ sent' = sent /\ ~HasSlot /\ Looping(t)
      /\ task[t].waited + Delay > MaxWait
      /\ task' = [task EXCEPT ![t].pc = "timed_out"]
  BY DEF GiveUp
<1>1. Delay \in 1 .. Window
  BY <1>g, FullAfterSlide
<1>2. /\ task[t].began + task[t].sleeps <= Len(sent)
      /\ task[t].sleeps = 0 => task[t].waited = 0
      /\ task[t].sleeps = 1 => task[t].waited <= Window
  BY <1>g, OvertakenBefore
<1>3. task[t].sleeps >= 2
  <2> DEFINE d == Delay
  <2>1. d \in Nat /\ d <= Window /\ task[t].waited + d > 2 * Window
    BY <1>1, <1>g
  <2> HIDE DEF d
  <2>2. task[t].waited > Window
    BY <1>n, <2>1
  <2> QED
    BY <1>n, <1>2, <2>2
<1>4. /\ dropped' \in 0 .. Len(sent)
      /\ (Ordered /\ DroppedIsOld /\ DequeFits /\ WindowRespected)'
  BY <1>g, SlideKeeps
<1>5. /\ task'[t].pc = "timed_out" /\ task'[t].began = task[t].began
      /\ \A u \in Tasks \ {t} : task'[u] = task[u]
      /\ task' \in [Tasks -> Task]
  BY <1>t, <1>g DEF Task
<1>6. TypeOK'
  BY <1>t, <1>g, <1>4, <1>5 DEF TypeOK
<1>7. \A u \in Tasks \ {t} : TaskInv(u)'
  BY <1>t, <1>g, <1>5, OthersKeep
<1>8. TaskInv(t)'
  BY <1>t, <1>n, <1>g, <1>2, <1>3, <1>5 DEF TaskInv
<1> QED
  BY <1>4, <1>6, <1>7, <1>8 DEF IInv

\* A task that stops asking, and a tick, leave the sends alone.
LEMMA RestStep ==
  ASSUME IInv, UNCHANGED <<sent, dropped>>, time' \in Nat, time <= time',
         task' \in [Tasks -> Task],
         \A t \in Tasks : task'[t] = task[t] \/ task'[t] = IdleTask
  PROVE  IInv'
<1> USE RateLimiterAssumption
<1>t. /\ time \in Nat /\ sent \in Seq(Nat) /\ dropped \in 0 .. Len(sent) /\ Len(sent) \in Nat
      /\ \A i \in DOMAIN sent : sent[i] \in Nat
  BY DEF IInv, TypeOK
<1>1. TypeOK'
  BY <1>t DEF TypeOK
<1>2. Ordered'
  BY <1>t DEF IInv, Ordered
<1>3. DroppedIsOld'
  <2>1. \A i \in 1 .. dropped : i \in DOMAIN sent
    BY <1>t
  <2> QED
    BY <1>t, <2>1 DEF IInv, DroppedIsOld
<1>4. DequeFits' /\ WindowRespected'
  BY DEF IInv, DequeFits, WindowRespected
<1>5. ASSUME NEW t \in Tasks PROVE TaskInv(t)'
  <2>1. CASE task'[t] = task[t]
    BY <1>t, <2>1, OthersKeep
  <2>2. CASE task'[t] = IdleTask
    BY <2>2 DEF TaskInv, IdleTask
  <2> QED
    BY <2>1, <2>2
<1> QED
  BY <1>1, <1>2, <1>3, <1>4, <1>5 DEF IInv

LEMMA StepPreserves == ASSUME IInv, [Next]_rateVars PROVE IInv'
<1>t. time \in Nat /\ task \in [Tasks -> Task] /\ IdleTask \in Task
  BY DEF IInv, TypeOK, IdleTask, Task
<1>1. ASSUME NEW t \in Tasks, Raised(t) \/ Cancel(t) PROVE IInv'
  <2>1. UNCHANGED <<time, sent, dropped>> /\ task' = [task EXCEPT ![t] = IdleTask]
    BY <1>1 DEF Raised, Cancel
  <2> QED
    BY <1>t, <2>1, RestStep
<1>2. CASE Tick
  <2>1. UNCHANGED <<sent, dropped, task>> /\ time' = time + 1
    BY <1>2 DEF Tick
  <2> QED
    BY <1>t, <2>1, RestStep
<1>3. CASE UNCHANGED rateVars
  <2>1. UNCHANGED <<time, sent, dropped, task>>
    BY <1>3 DEF rateVars
  <2> QED
    BY <1>t, <2>1, RestStep
<1> QED
  BY <1>1, <1>2, <1>3, AskStep, GrantStep, SleepStep, GiveUpStep DEF Next, Pass

\* The deque, the sends and the sleepers agree in every reachable state.
THEOREM Invariance == Spec => []IInv
<1> QED
  BY InitEstablishes, StepPreserves, PTL DEF Spec

\* The limiter keeps its types, the deque within the sends.
THEOREM TypeCorrect == Spec => []TypeOK
<1>1. IInv => TypeOK
  BY DEF IInv
<1> QED
  BY <1>1, Invariance, PTL

\* No stretch of time shorter than the window holds more than the limit, for any
\* limit, any window and any number of tasks (ratelimit.py acquire).
THEOREM NeverAboveLimit == Spec => []WindowRespected
<1>1. IInv => WindowRespected
  BY DEF IInv
<1> QED
  BY <1>1, Invariance, PTL

\* Nobody sleeps again or times out without having been overtaken.
THEOREM TimeoutMeansOutrun == Spec => []OutrunToSleepAgain
<1>1. IInv => OutrunToSleepAgain
  <2> SUFFICES ASSUME IInv, NEW t \in Tasks
               PROVE  /\ task[t].pc = "asleep" =>
                            Len(sent) - task[t].began >= task[t].sleeps - 1
                      /\ task[t].pc = "timed_out" => Len(sent) - task[t].began >= 2
    BY DEF OutrunToSleepAgain
  <2>1. TaskInv(t) /\ task[t].began \in Nat /\ task[t].sleeps \in Nat /\ Len(sent) \in Nat
    BY DEF IInv, TypeOK, Task
  <2>2. ASSUME task[t].pc = "asleep" PROVE Len(sent) - task[t].began >= task[t].sleeps - 1
    <3>1. PICK e \in DOMAIN sent : Awaits(t, e)
      BY <2>1, <2>2 DEF TaskInv, Sleeping
    <3>2. e \in Nat
      BY DEF IInv, TypeOK
    <3> QED
      BY <2>1, <3>1, <3>2, RateLimiterAssumption DEF Awaits
  <2> QED
    BY <2>1, <2>2 DEF TaskInv
<1> QED
  BY <1>1, Invariance, PTL

-----------------------------------------------------------------------------
(* The terminal application *)

\* What an action does to the table: nothing, a rebuild that keeps the view and its
\* sort, a rebuild without a sort, or a rebuild with a sort key of the view.
LEMMA TableSteps ==
  ASSUME ExplorerNext
  PROVE  \/ CursorMoves
         \/ UNCHANGED <<view, sort, screen, cursor>>
         \/ \E v, filter, order, collection, watchlist :
              /\ Reload(v, filter, order, collection, watchlist)
              /\ order = Nothing \/ (v = view /\ (order = sort \/ order \in Sortable(v.kind)))
<1> DEFINE Rebuilt ==
      \E v, filter, order, collection, watchlist :
        /\ Reload(v, filter, order, collection, watchlist)
        /\ order = Nothing \/ (v = view /\ (order = sort \/ order \in Sortable(v.kind)))
<1>1. ASSUME NEW v, NEW collection, Show(v, collection) PROVE Rebuilt
  BY <1>1 DEF Show
<1>2. ASSUME ReloadAsIs PROVE Rebuilt
  BY <1>2 DEF ReloadAsIs
<1>3. ASSUME NEW v, Open(v) PROVE Rebuilt
  BY <1>1, <1>3 DEF Open
<1>4. ASSUME Mark \/ Watch \/ JobActivity PROVE Rebuilt
  BY <1>2, <1>4 DEF Mark, Watch, JobActivity
<1>5. ASSUME Source PROVE Rebuilt
  BY <1>3, <1>5 DEF Source
<1>6. ASSUME Sort PROVE Rebuilt
  <2>1. PICK next \in DOMAIN SORT_CYCLES[view.kind] :
          Reload(view, contains, SORT_CYCLES[view.kind][next], mode, watched)
    BY <1>6 DEF Sort
  <2>2. SORT_CYCLES[view.kind][next] \in Sortable(view.kind)
    BY DEF Sortable, ToSet
  <2> QED BY <2>1, <2>2
<1>7. ASSUME NEW collection, SelectExploreMode(collection) PROVE Rebuilt
  BY <1>1, <1>7 DEF SelectExploreMode
<1>8. ASSUME NEW term, Type(term) PROVE Rebuilt
  BY <1>8 DEF Type
<1>9. ASSUME Escape PROVE Rebuilt \/ UNCHANGED <<view, sort, screen, cursor>>
  BY <1>1, <1>9 DEF Escape
<1>10. ASSUME RowSelected PROVE Rebuilt \/ UNCHANGED <<view, sort, screen, cursor>>
  BY <1>3, <1>10 DEF RowSelected
<1>11. ASSUME HeaderSelected PROVE Rebuilt \/ UNCHANGED <<view, sort, screen, cursor>>
  BY <1>11 DEF HeaderSelected
<1>12. ASSUME NEW outcome, Apply(outcome)
       PROVE  Rebuilt \/ UNCHANGED <<view, sort, screen, cursor>>
  BY <1>1, <1>2, <1>12 DEF Apply
<1>13. ASSUME NEW command, NEW asks, RunCommand(command, asks)
       PROVE  UNCHANGED <<view, sort, screen, cursor>>
  BY <1>13 DEF RunCommand
<1>14. ASSUME NEW which, OpenBar(which) PROVE UNCHANGED <<view, sort, screen, cursor>>
  BY <1>14 DEF OpenBar
<1>15. ASSUME Press \/ Submit \/ JobStored \/ CommandFails
       PROVE  UNCHANGED <<view, sort, screen, cursor>>
  BY <1>15 DEF Press, Submit, JobStored, CommandFails
<1> HIDE DEF Rebuilt
<1>16. CursorMoves \/ Rebuilt \/ UNCHANGED <<view, sort, screen, cursor>>
  BY <1>4, <1>5, <1>6, <1>7, <1>8, <1>9, <1>10, <1>11, <1>12, <1>13, <1>14, <1>15
  DEF ExplorerNext
<1> QED BY <1>16 DEF Rebuilt

\* "A sort key belongs to one view": no message, job, command or escape leaves the
\* table with a key that _order_by would refuse.
THEOREM SortAlwaysBelongs == ExplorerSpec => []SortBelongs
<1>1. ExplorerInit => SortBelongs
  BY DEF ExplorerInit, SortBelongs
<1>2. SortBelongs /\ [ExplorerNext]_explorerVars => SortBelongs'
  <2> SUFFICES ASSUME SortBelongs, [ExplorerNext]_explorerVars PROVE SortBelongs'
    OBVIOUS
  <2>1. CASE UNCHANGED <<view, sort>>
    BY <2>1 DEF SortBelongs
  <2>2. ASSUME NEW v, NEW filter, NEW order, NEW collection, NEW watchlist,
               Reload(v, filter, order, collection, watchlist),
               order = Nothing \/ (v = view /\ (order = sort \/ order \in Sortable(v.kind)))
        PROVE  SortBelongs'
    <3>1. view' = v /\ sort' = order
      BY <2>2 DEF Reload
    <3> QED BY <2>2, <3>1 DEF SortBelongs
  <2>3. CASE UNCHANGED explorerVars
    BY <2>1, <2>3 DEF explorerVars
  <2>4. CASE CursorMoves
    BY <2>1, <2>4 DEF CursorMoves
  <2> QED BY <2>1, <2>2, <2>3, <2>4, TableSteps
<1> QED BY <1>1, <1>2, PTL DEF ExplorerSpec

\* "Which row the cursor was on, by identity rather than by position": no rebuild
\* moves the cursor off a row that is still there.
THEOREM CursorStaysOnKey == ExplorerSpec => CursorFollowsKey
<1> DEFINE Stays == OnRow /\ screen[cursor] \in ToSet(screen') => screen'[cursor'] = screen[cursor]
<1>1. ASSUME NEW v, NEW filter, NEW order, NEW collection, NEW watchlist,
             Reload(v, filter, order, collection, watchlist)
      PROVE  Stays
  <2> SUFFICES ASSUME cursor <= Len(screen), screen[cursor] \in ToSet(screen')
               PROVE  screen'[cursor'] = screen[cursor]
    BY DEF OnRow
  <2>1. cursor' = CHOOSE i \in DOMAIN screen' : screen'[i] = screen[cursor]
    BY <1>1 DEF Reload, Landing
  <2>2. \E i \in DOMAIN screen' : screen'[i] = screen[cursor]
    BY DEF ToSet
  <2> QED BY <2>1, <2>2
<1>2. ASSUME UNCHANGED <<screen, cursor>> PROVE Stays
  BY <1>2
<1> HIDE DEF Stays
<1>3. ExplorerNext => CursorMoves \/ Stays
  BY <1>1, <1>2, TableSteps
<1>4. [ExplorerNext]_explorerVars =>
        [ \/ CursorMoves
          \/ OnRow /\ screen[cursor] \in ToSet(screen') => screen'[cursor'] = screen[cursor]
        ]_explorerVars
  BY <1>3 DEF Stays
<1> QED BY <1>4, PTL DEF ExplorerSpec, CursorFollowsKey

\* "marks that produced nothing are still a selection the user made"
\* (tui/commands.py:63): a mark goes by its own key, or with a :vol that queued
\* something, of the marks or not.
THEOREM MarksKept == ExplorerSpec => MarksOutliveFailure
<1> DEFINE Spent == \/ marked \subseteq marked'
                    \/ worker.name = "vol" /\ Apply("queued")
                    \/ OnRow /\ marked' = marked \ {screen[cursor]}
<1>1. ASSUME UNCHANGED marked PROVE Spent
  BY <1>1
<1>2. ASSUME Mark PROVE Spent
  BY <1>2 DEF Mark, Toggle
<1>3. ASSUME NEW outcome, Apply(outcome) PROVE Spent
  <2>1. CASE ClearsMarks(outcome)
    BY <1>3, <2>1 DEF ClearsMarks
  <2>2. CASE ~ClearsMarks(outcome)
    BY <1>1, <1>3, <2>2 DEF Apply
  <2> QED BY <2>1, <2>2
<1> HIDE DEF Spent
<1>4. ExplorerNext => Spent
  <2>1. ASSUME CursorMoves \/ Watch \/ Source \/ Sort \/ Escape \/ Press \/ Submit
        PROVE  UNCHANGED marked
    BY <2>1 DEF CursorMoves, Watch, Source, Sort, Escape, Press, Submit
  <2>2. ASSUME RowSelected \/ HeaderSelected \/ JobStored \/ JobActivity \/ CommandFails
        PROVE  UNCHANGED marked
    BY <2>2 DEF RowSelected, HeaderSelected, JobStored, JobActivity, CommandFails
  <2>3. ASSUME NEW x, SelectExploreMode(x) \/ OpenBar(x) \/ Type(x) PROVE UNCHANGED marked
    BY <2>3 DEF SelectExploreMode, OpenBar, Type
  <2>4. ASSUME NEW command, NEW asks, RunCommand(command, asks) PROVE UNCHANGED marked
    BY <2>4 DEF RunCommand
  <2> QED BY <1>1, <1>2, <1>3, <2>1, <2>2, <2>3, <2>4 DEF ExplorerNext
<1>5. [ExplorerNext]_explorerVars =>
        [ \/ marked \subseteq marked' \/ (worker.name = "vol" /\ Apply("queued"))
          \/ (OnRow /\ marked' = marked \ {screen[cursor]})
        ]_explorerVars
  BY <1>4 DEF Spent
<1> QED BY <1>5, PTL DEF ExplorerSpec, MarksOutliveFailure

-----------------------------------------------------------------------------
(* Marks and the watchlist *)

\* What stands in the rows of a view.
KeysOf(v) ==
  CASE v.kind = "domains" -> Sites
    [] v.kind = "response" -> Tables
    [] OTHER -> Words

ArgsOf(kind) ==
  CASE kind = "domain" -> Sites
    [] kind = "gap" -> Pairs
    [] kind = "response" -> Responses
    [] OTHER -> {Nothing}

Views == {v \in [kind : Kinds, arg : UNION {ArgsOf(kind) : kind \in Kinds}] : v.arg \in ArgsOf(v.kind)}

\* The table holds the keys of its view, whatever led there: each view that is
\* open, left behind or on its way is one that its rows can be read from.
ScreenInv ==
  /\ ranking \in Rankings
  /\ marked \subseteq Words /\ watched \subseteq Words
  /\ view \in Views /\ back \in Seq(Views)
  /\ screen \in Seq(KeysOf(view)) /\ cursor \in Nat \ {0}
  /\ posted.type = "row" => posted.what \in Nat \ {0}
  /\ worker.name = "ranks" => worker.arg \in Sites
  /\ worker.name = "gap" => worker.arg \in Pairs

LEMMA ViewIs ==
  ASSUME NEW kind \in Kinds, NEW arg \in ArgsOf(kind)
  PROVE  View(kind, arg) \in Views
BY DEF View, Views

LEMMA WordsFinite == IsFiniteSet(Words) /\ Words \in SUBSET Nat
<1>1. Plainness \in Seq(Words) /\ Words = {Plainness[i] : i \in DOMAIN Plainness}
  BY ExplorerAssumption DEF ToSet
<1>2. DOMAIN Plainness = 1 .. Len(Plainness) /\ Len(Plainness) \in Nat
  BY <1>1
<1>3. IsFiniteSet(DOMAIN Plainness)
  BY <1>2, FS_Interval
<1>4. Plainness \in Surjection(DOMAIN Plainness, Words)
  BY <1>1 DEF Surjection
<1>5. IsFiniteSet(Words)
  BY <1>3, <1>4, FS_Surjection
<1> QED BY <1>5, ExplorerAssumption

\* Rows of keywords, best volume first, are the keywords asked for.
LEMMA ByVolumeIs ==
  ASSUME NEW words \in SUBSET Words, ranking \in Seq(Words)
  PROVE  ByVolume(words) \in Seq(words)
<1>1. Kept(ranking, words) \in Seq(words)
  <2>1. Kept(ranking, words) \in Seq(Words \cap words) /\ Words \cap words = words
    BY KeptIs
  <2> QED BY <2>1
<1> DEFINE rest == words \ ToSet(ranking)
<1>2. InOrder(rest) \in Seq(words)
  <2>1. rest \in SUBSET Nat /\ rest \in SUBSET Words
    BY WordsFinite
  <2>2. InOrder(rest) \in Seq(rest)
    BY <2>1, WordsFinite, FS_Subset, InOrderSeq
  <2> HIDE DEF rest
  <2>3. rest \subseteq words
    BY DEF rest
  <2> QED BY <2>2, <2>3
<1>3. ByVolume(words) = Kept(ranking, words) \o InOrder(rest)
  BY DEF ByVolume
<1> HIDE DEF rest
<1> QED BY <1>1, <1>2, <1>3

\* A gap shows keywords of its pair.
LEMMA GapRowsAre ==
  ASSUME NEW pair, KnownFor[pair] \in SUBSET Words, NEW filter, ranking \in Seq(Words)
  PROVE  GapRows(pair, filter) \in Seq(Words)
<1> DEFINE words == KnownFor[pair]
           rows == ByVolume(words)
           best == {k \in words : k = Kept(rows, Cluster(words, k))[1]}
           found == {k \in words : filter = Nothing \/ Cluster(words, k) \cap filter # {}}
           shown == Kept(ClusterRows(words), found)
<1>1. rows \in Seq(words)
  BY ByVolumeIs
<1>2. ClusterRows(words) = Kept(rows, best)
  BY DEF ClusterRows
<1>3. ClusterRows(words) \in Seq(words)
  <2> HIDE DEF best, rows
  <2>1. Kept(rows, best) \in Seq(words \cap best)
    BY <1>1, KeptIs
  <2> QED BY <1>2, <2>1
<1>4. shown \in Seq(words)
  <2> HIDE DEF found
  <2>1. shown \in Seq(words \cap found)
    BY <1>3, KeptIs
  <2> QED BY <2>1
<1>5. ASSUME NEW k \in words PROVE Representative(Cluster(words, k)) \in Words
  <2> DEFINE cluster == Cluster(words, k)
  <2>1. k \in cluster /\ k \in Words
    BY DEF Cluster
  <2>2. \E n \in DOMAIN Plainness : Plainness[n] = k
    BY <2>1, ExplorerAssumption DEF ToSet
  <2> HIDE DEF cluster, rows, best, found
  <2>3. Plainness \in Seq(Words)
    BY ExplorerAssumption
  <2>4. /\ Kept(Plainness, cluster) \in Seq(Words \cap cluster)
        /\ \A n \in DOMAIN Plainness : Plainness[n] \in cluster =>
             \E m \in DOMAIN Kept(Plainness, cluster) : Kept(Plainness, cluster)[m] = Plainness[n]
    BY <2>3, KeptIs
  <2>5. DOMAIN Kept(Plainness, cluster) # {}
    BY <2>1, <2>2, <2>4
  <2>6. Kept(Plainness, cluster)[1] \in Words
    BY <2>4, <2>5
  <2> QED BY <2>6 DEF Representative, cluster
<1>6. GapRows(pair, filter) = [i \in DOMAIN shown |-> Representative(Cluster(words, shown[i]))]
  BY DEF GapRows
<1> HIDE DEF shown
<1>7. \A i \in DOMAIN shown : Representative(Cluster(words, shown[i])) \in Words
  BY <1>4, <1>5
<1> DEFINE picked(i) == Representative(Cluster(words, shown[i]))
<1>8. GapRows(pair, filter) = [i \in 1 .. Len(shown) |-> picked(i)] /\ Len(shown) \in Nat
  BY <1>4, <1>6
<1>9. \A i \in 1 .. Len(shown) : picked(i) \in Words
  BY <1>4, <1>7
<1> HIDE DEF picked
<1> QED BY <1>8, <1>9

\* The domains can be listed.
LEMMA SitesListed == ASSUME IsFiniteSet(Sites) PROVE SetToSeq(Sites) \in Seq(Sites)
<1> DEFINE N == Cardinality(Sites)
<1>1. N \in Nat
  BY FS_CardinalityType
<1>2. \E f : f \in [1 .. N -> Sites] /\ IsInjective(f)
  <2>1. PICK f \in Bijection(1 .. N, Sites) : TRUE
    BY FS_CardinalityType DEF ExistsBijection
  <2> QED BY <2>1 DEF Bijection, Injection
<1> QED BY <1>1, <1>2 DEF SetToSeq

\* Whatever the filter, sort and collection, a view shows its own keys.
LEMMA RowsAre ==
  ASSUME ranking \in Rankings, NEW v \in Views, NEW filter, NEW order, NEW collection,
         NEW watchlist
  PROVE  Rows(v, filter, order, collection, watchlist) \in Seq(KeysOf(v))
<1>1. ranking \in Seq(Words)
  BY ExplorerAssumption
<1>2. v.kind \in Kinds /\ v.arg \in ArgsOf(v.kind)
  BY DEF Views
<1>3. ASSUME NEW X, NEW rows \in Seq(X) PROVE Filtered(rows, filter) \in Seq(X)
  <2>1. Kept(rows, filter) \in Seq(X \cap filter)
    BY <1>3, KeptIs
  <2> QED BY <1>3, <2>1 DEF Filtered
<1>4. ASSUME NEW words \in SUBSET Words PROVE InOrder(words) \in Seq(Words)
  <2>1. InOrder(words) \in Seq(words)
    BY WordsFinite, FS_Subset, InOrderSeq
  <2> QED BY <2>1
<1>5. CASE v.kind = "keywords"
  <2> DEFINE rows == IF order = "keyword" THEN InOrder(ToSet(ranking)) ELSE ranking
  <2>1. ToSet(ranking) \in SUBSET Words
    BY <1>1 DEF ToSet
  <2>2. rows \in Seq(Words)
    BY <1>1, <1>4, <2>1
  <2>3. KeywordRows(order, collection, watchlist) =
          IF collection = "watchlist" THEN Kept(rows, watchlist) ELSE rows
    BY DEF KeywordRows
  <2> HIDE DEF rows
  <2>4. Kept(rows, watchlist) \in Seq(Words \cap watchlist)
    BY <2>2, KeptIs
  <2>5. KeywordRows(order, collection, watchlist) \in Seq(Words)
    BY <2>2, <2>3, <2>4
  <2>6. Rows(v, filter, order, collection, watchlist) =
          Filtered(KeywordRows(order, collection, watchlist), filter)
    BY <1>5 DEF Rows
  <2>7. KeysOf(v) = Words
    BY <1>5 DEF KeysOf
  <2> QED BY <1>3, <2>5, <2>6, <2>7
<1>6. CASE v.kind = "domains"
  <2>1. DomainRows \in Seq(Sites)
    BY ExplorerAssumption, SitesListed DEF DomainRows
  <2>2. Rows(v, filter, order, collection, watchlist) = Filtered(DomainRows, filter)
    BY <1>6 DEF Rows
  <2>3. KeysOf(v) = Sites
    BY <1>6 DEF KeysOf
  <2> QED BY <1>3, <2>1, <2>2, <2>3
<1>7. CASE v.kind = "domain"
  <2>1. KnownFor[v.arg] \in SUBSET Words
    BY <1>2, <1>7, ExplorerAssumption DEF ArgsOf
  <2>2. ByVolume(KnownFor[v.arg]) \in Seq(Words)
    BY <1>1, <2>1, ByVolumeIs
  <2>3. Rows(v, filter, order, collection, watchlist) = Filtered(ByVolume(KnownFor[v.arg]), filter)
    BY <1>7 DEF Rows, DomainKeywordRows
  <2>4. KeysOf(v) = Words
    BY <1>7 DEF KeysOf
  <2> QED BY <1>3, <2>2, <2>3, <2>4
<1>8. CASE v.kind = "gap"
  <2>1. KnownFor[v.arg] \in SUBSET Words
    BY <1>2, <1>8, ExplorerAssumption DEF ArgsOf
  <2>2. GapRows(v.arg, filter) \in Seq(Words)
    BY <1>1, <2>1, GapRowsAre
  <2>3. Rows(v, filter, order, collection, watchlist) = GapRows(v.arg, filter)
    BY <1>8 DEF Rows
  <2>4. KeysOf(v) = Words
    BY <1>8 DEF KeysOf
  <2> QED BY <2>2, <2>3, <2>4
<1>9. CASE v.kind = "gsc"
  <2>1. QueryRows \in Seq(Words)
    BY <1>4, ExplorerAssumption DEF QueryRows
  <2>2. Rows(v, filter, order, collection, watchlist) = Filtered(QueryRows, filter)
    BY <1>9 DEF Rows
  <2>3. KeysOf(v) = Words
    BY <1>9 DEF KeysOf
  <2> QED BY <1>3, <2>1, <2>2, <2>3
<1>10. CASE v.kind = "response"
  <2>1. Produced[v.arg] \in Seq(Tables)
    BY <1>2, <1>10, ExplorerAssumption DEF ArgsOf
  <2>2. Rows(v, filter, order, collection, watchlist) = Produced[v.arg]
    BY <1>10 DEF Rows
  <2>3. KeysOf(v) = Tables
    BY <1>10 DEF KeysOf
  <2> QED BY <2>1, <2>2, <2>3
<1> QED BY <1>2, <1>5, <1>6, <1>7, <1>8, <1>9, <1>10 DEF Kinds

\* A rebuild leaves a table of its view, with the cursor on a row.
LEMMA ReloadShows ==
  ASSUME ScreenInv, NEW v \in Views, NEW filter, NEW order, NEW collection,
         NEW watchlist \in SUBSET Words, Reload(v, filter, order, collection, watchlist)
  PROVE  /\ view' \in Views /\ watched' \subseteq Words
         /\ screen' \in Seq(KeysOf(view')) /\ cursor' \in Nat \ {0}
<1>1. view' = v /\ watched' = watchlist /\ screen' \in Seq(KeysOf(v))
  BY RowsAre DEF Reload, ScreenInv
<1>2. cursor' = Landing(screen')
  BY DEF Reload
<1>3. Landing(screen') \in DOMAIN screen' \cup {1}
  BY DEF Landing, ToSet
<1>4. DOMAIN screen' \subseteq Nat \ {0}
  BY <1>1
<1> QED BY <1>1, <1>2, <1>3, <1>4

\* What an action leaves on the screen: itself, or a rebuild.
Shown ==
  /\ view' \in Views /\ watched' \subseteq Words
  /\ screen' \in Seq(KeysOf(view')) /\ cursor' \in Nat \ {0}

LEMMA AsItWas ==
  ASSUME ScreenInv, UNCHANGED <<view, watched, screen, cursor>>
  PROVE  Shown
BY DEF ScreenInv, Shown

LEMMA Reloaded ==
  ASSUME ScreenInv, NEW v \in Views, NEW filter, NEW order, NEW collection,
         NEW watchlist \in SUBSET Words, Reload(v, filter, order, collection, watchlist)
  PROVE  Shown
BY ReloadShows DEF Shown

LEMMA ReloadedAsIs ==
  ASSUME ScreenInv, ReloadAsIs
  PROVE  Shown
BY Reloaded DEF ScreenInv, ReloadAsIs

LEMMA OpenShows ==
  ASSUME ScreenInv, NEW v \in Views, Open(v)
  PROVE  Shown /\ back' \in Seq(Views)
<1>1. Shown
  BY Reloaded DEF ScreenInv, Open, Show
<1>2. back' = Append(back, view) /\ back \in Seq(Views) /\ view \in Views
  BY DEF ScreenInv, Open
<1> QED BY <1>1, <1>2

\* The row under the cursor is a keyword in a view of keywords.
LEMMA OnAKeyword ==
  ASSUME ScreenInv, OnRow, view.kind \in KeywordKeys
  PROVE  screen[cursor] \in Words
<1>1. KeysOf(view) = Words
  BY DEF KeywordKeys, KeysOf
<1> QED BY <1>1 DEF ScreenInv, OnRow

LEMMA ScreenInvInit == ASSUME ExplorerInit PROVE ScreenInv
<1>1. Home \in Views
  BY ViewIs DEF Home, Kinds, ArgsOf
<1>2. KeysOf(Home) = Words
  BY DEF Home, View, KeysOf
<1>3. screen \in Seq(Words)
  <2>1. ranking \in Rankings /\ screen = Rows(Home, Nothing, Nothing, "all", {})
    BY DEF ExplorerInit
  <2>2. Rows(Home, Nothing, Nothing, "all", {}) \in Seq(KeysOf(Home))
    BY <1>1, <2>1, RowsAre
  <2> QED BY <1>2, <2>1, <2>2
<1>4. back \in Seq(Views)
  BY DEF ExplorerInit
<1> QED BY <1>1, <1>2, <1>3, <1>4 DEF ExplorerInit, ScreenInv, NoMessage, NoWorker

LEMMA ScreenInvStep ==
  ASSUME ScreenInv, ExplorerNext
  PROVE  ScreenInv'
<1> USE DEF ScreenInv
<1> DEFINE Rest == UNCHANGED <<ranking, marked, back, posted, worker>>
<1>0. ASSUME Shown, Rest PROVE ScreenInv'
  BY <1>0 DEF Shown
<1>1. CASE CursorMoves
  <2>1. cursor' \in DOMAIN screen
    BY <1>1 DEF CursorMoves
  <2>2. cursor' \in Nat \ {0}
    BY <2>1
  <2> QED BY <1>1, <2>2 DEF CursorMoves
<1>2. CASE Mark
  <2>1. marked' \subseteq Words
    BY <1>2, OnAKeyword DEF Mark, Toggle
  <2>2. Shown
    BY <1>2, ReloadedAsIs DEF Mark
  <2> QED BY <1>2, <2>1, <2>2 DEF Mark, Shown
<1>3. CASE Watch
  <2> DEFINE targets == IF marked # {} THEN marked ELSE {screen[cursor]}
             watchlist == IF targets \subseteq watched THEN watched \ targets ELSE watched \cup targets
  <2>1. targets \subseteq Words
    BY <1>3, OnAKeyword DEF Watch
  <2>2. watchlist \in SUBSET Words
    BY <2>1
  <2>3. Reload(view, contains, sort, mode, watchlist)
    BY <1>3 DEF Watch
  <2> HIDE DEF watchlist
  <2>4. Shown
    BY <2>2, <2>3, Reloaded
  <2> QED BY <1>0, <1>3, <2>4 DEF Watch
<1>4. CASE Source
  <2>1. screen[cursor] \in Words
    BY <1>4, OnAKeyword DEF Source, KeywordKeys
  <2>2. View("response", SourceOf[screen[cursor]]) \in Views
    BY <2>1, ViewIs, ExplorerAssumption DEF Kinds, ArgsOf
  <2>3. Shown /\ back' \in Seq(Views)
    BY <1>4, <2>2, OpenShows DEF Source
  <2> QED BY <1>4, <2>3 DEF Source, Shown
<1>5. CASE Sort
  <2>1. PICK next : Reload(view, contains, SORT_CYCLES[view.kind][next], mode, watched)
    BY <1>5 DEF Sort
  <2>2. Shown
    BY <2>1, Reloaded
  <2> QED BY <1>0, <1>5, <2>2 DEF Sort
<1>6. CASE Escape
  <2>1. CASE UNCHANGED <<view, watched, screen, cursor, back>>
    BY <1>0, <1>6, <2>1, AsItWas DEF Escape
  <2>2. CASE Reload(view, Nothing, sort, mode, watched) /\ UNCHANGED back
    BY <1>0, <1>6, <2>2, Reloaded DEF Escape
  <2>3. CASE back # <<>> /\ back' = Front(back) /\ Show(Last(back), mode)
    <3>1. Last(back) \in Views /\ back' \in Seq(Views)
      BY <2>3 DEF Last, Front
    <3>2. Shown
      BY <2>3, <3>1, Reloaded DEF Show
    <3> QED BY <1>6, <3>1, <3>2 DEF Escape, Shown
  <2> QED BY <1>6, <2>1, <2>2, <2>3 DEF Escape
<1>7. CASE Press
  <2>1. posted'.type = "row" => posted'.what \in Nat \ {0}
    BY <1>7 DEF Press
  <2> QED BY <1>7, <2>1 DEF Press
<1>8. CASE Submit
  BY <1>0, <1>8, AsItWas DEF Submit
<1>9. ASSUME NEW collection, SelectExploreMode(collection) PROVE ScreenInv'
  <2>1. Home \in Views
    BY ViewIs DEF Home, Kinds, ArgsOf
  <2>2. Shown
    BY <1>9, <2>1, Reloaded DEF SelectExploreMode, Show
  <2> QED BY <1>0, <1>9, <2>2 DEF SelectExploreMode
<1>10. ASSUME NEW which, OpenBar(which) PROVE ScreenInv'
  BY <1>0, <1>10, AsItWas DEF OpenBar
<1>11. ASSUME NEW term, Type(term) PROVE ScreenInv'
  BY <1>0, <1>11, Reloaded DEF Type
<1>12. CASE RowSelected
  <2>1. posted' = NoMessage /\ UNCHANGED <<ranking, marked, worker>>
    BY <1>12 DEF RowSelected
  <2>2. CASE posted.what <= Len(screen) /\ view.kind \in {"domains", "response"}
    <3> DEFINE key == screen[posted.what]
    <3>1. key \in KeysOf(view)
      BY <1>12, <2>2 DEF RowSelected
    <3>2. Deeper(key) \in Views
      <4>1. CASE view.kind = "domains"
        BY <3>1, <4>1, ViewIs DEF Deeper, KeysOf, Kinds, ArgsOf
      <4>2. CASE view.kind = "response"
        <5>1. TableView[key] \in {"keywords", "domains", "gsc"}
          BY <3>1, <4>2, ExplorerAssumption DEF KeysOf
        <5>2. View(TableView[key], Nothing) \in Views
          BY <5>1, ViewIs DEF Kinds, ArgsOf
        <5> QED BY <4>2, <5>2 DEF Deeper
      <4> QED BY <2>2, <4>1, <4>2
    <3>3. Open(Deeper(key))
      BY <1>12, <2>2 DEF RowSelected
    <3> HIDE DEF key
    <3>4. Shown /\ back' \in Seq(Views)
      BY <3>2, <3>3, OpenShows
    <3> QED BY <2>1, <3>4 DEF Shown, NoMessage
  <2>3. CASE ~(posted.what <= Len(screen) /\ view.kind \in {"domains", "response"})
    BY <1>12, <2>1, <2>3, AsItWas DEF RowSelected, NoMessage, Shown
  <2> QED BY <2>2, <2>3
<1>13. CASE HeaderSelected
  <2>1. Shown
    BY <1>13, Reloaded, AsItWas DEF HeaderSelected
  <2> QED BY <1>13, <2>1 DEF HeaderSelected, Shown, NoMessage
<1>14. CASE JobStored
  BY <1>14 DEF JobStored
<1>15. CASE JobActivity
  BY <1>0, <1>15, ReloadedAsIs DEF JobActivity
<1>16. ASSUME NEW command \in Commands, NEW asks, RunCommand(command, asks) PROVE ScreenInv'
  <2>1. /\ worker'.name = command.name /\ worker'.arg = command.arg
        /\ UNCHANGED <<ranking, watched, view, marked, back, screen, cursor, posted>>
    BY <1>16 DEF RunCommand
  <2>2. /\ command.name = "ranks" => command.arg \in Sites
        /\ command.name = "gap" => command.arg \in Pairs
    BY DEF Commands
  <2> QED BY <2>1, <2>2
<1>17. ASSUME NEW outcome, Apply(outcome) PROVE ScreenInv'
  <2>1. worker' = NoWorker /\ marked' \subseteq Words /\ UNCHANGED <<ranking, back, posted>>
    BY <1>17 DEF Apply
  <2>2. Shown
    <3>1. CASE Destination(outcome) # Nothing
      <4>1. Destination(outcome) \in Views
        BY <3>1, ViewIs DEF Destination, Home, Kinds, ArgsOf
      <4> QED BY <1>17, <3>1, <4>1, Reloaded DEF Apply, Show
    <3>2. CASE Destination(outcome) = Nothing
      BY <1>17, <3>2, ReloadedAsIs, AsItWas DEF Apply
    <3> QED BY <3>1, <3>2
  <2> QED BY <2>1, <2>2 DEF Shown, NoWorker
<1>18. CASE CommandFails
  BY <1>18 DEF CommandFails, NoWorker
<1> QED
  BY <1>1, <1>2, <1>3, <1>4, <1>5, <1>6, <1>7, <1>8, <1>9, <1>10, <1>11, <1>12, <1>13,
     <1>14, <1>15, <1>16, <1>17, <1>18 DEF ExplorerNext

\* Only keywords are marked or watched, whatever changes the view between the key
\* that marks and the table it is pressed in.
THEOREM KeywordsChosen == ExplorerSpec => []OnlyKeywordsChosen
<1>1. ExplorerInit => ScreenInv
  BY ScreenInvInit
<1>2. ScreenInv /\ [ExplorerNext]_explorerVars => ScreenInv'
  <2>1. ScreenInv /\ UNCHANGED explorerVars => ScreenInv'
    BY DEF ScreenInv, explorerVars
  <2> QED BY <2>1, ScreenInvStep
<1>3. ScreenInv => OnlyKeywordsChosen
  BY DEF ScreenInv, OnlyKeywordsChosen
<1> QED BY <1>1, <1>2, <1>3, PTL DEF ExplorerSpec
=============================================================================
