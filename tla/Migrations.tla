----------------------------- MODULE Migrations -----------------------------
(***************************************************************************)
(* Processes that start and run the pending migrations: run_migrations of  *)
(* app/db/migrate.py, on PostgreSQL or SQLite.                             *)
(*                                                                         *)
(* PostgreSQL runs everything in one transaction under an advisory lock.   *)
(* With SQLite the driver opens the transaction at the first INSERT: the   *)
(* statements before it are committed one by one, and from then on the     *)
(* runner has the write lock of the database.                              *)
(***************************************************************************)
EXTENDS Naturals, Sequences

CONSTANTS
    Runners,      \* the processes: the API and its workers
    Files,        \* the migrations, each a sequence of statements
    Legacy,       \* the tables by which a schema from before them is known
    MaxCrashes,   \* bound on the deaths of processes
    Nobody        \* holder of a free lock

Versions == 1 .. Len(Files)

\* What the statements of a migration create.
Adds(v) == {Files[v][i].adds : i \in DOMAIN Files[v]}

\* A statement adds an object, perhaps to a table that must be there; a strict
\* one (ALTER TABLE ADD COLUMN) fails if the object is there already.
ASSUME MigrationsAssumption ==
    /\ Len(Files) \in Nat \ {0}
    /\ \A v \in Versions :
           /\ Len(Files[v]) \in Nat
           /\ DOMAIN Files[v] = 1 .. Len(Files[v])
           /\ \A i \in DOMAIN Files[v] : Files[v][i].strict \in BOOLEAN
    /\ \A v, w \in Versions : v # w => Adds(v) \cap Adds(w) = {}
    /\ \A i \in DOMAIN Files[1] : ~Files[1][i].strict
    /\ Legacy \subseteq Adds(1) /\ Legacy # {}
    /\ Nobody \notin Runners
    /\ MaxCrashes \in Nat

VARIABLES
    dialect,   \* of the engine
    edited,    \* applied migrations whose file has changed since
    stored,    \* the database: its objects and the rows of schema_migrations
    draft,     \* the same, as the open transaction has it
    lock,      \* who has the advisory lock, or the write lock
    pc,        \* where each process is
    known,     \* its dictionary of applied versions
    at,        \* the next statement it will execute
    bare,      \* history: versions of which it has committed single statements
    torn,      \* history: such versions that were not whole when it ended
    crashes

config == <<dialect, edited>>
database == <<stored, draft, lock>>
runners == <<pc, known, at>>
vars == <<config, database, runners, bare, torn, crashes>>

\* A new database, one that was migrated as far as some version, or one from
\* before the migrations.
Init ==
    /\ dialect \in {"postgresql", "sqlite"}
    /\ \/ \E k \in 0 .. Len(Files) :
              /\ stored = [tables |-> UNION {Adds(v) : v \in 1..k}, rows |-> 1..k]
              /\ edited \in {{}} \cup {{v} : v \in 1..k}
       \/ stored = [tables |-> Adds(1), rows |-> {}] /\ edited = {}
    /\ draft = stored /\ lock = Nobody
    /\ pc = [r \in Runners |-> "down"] /\ known = [r \in Runners |-> {}]
    /\ at = [r \in Runners |-> [file |-> 1, statement |-> 1]]
    /\ bare = [r \in Runners |-> {}] /\ torn = {} /\ crashes = 0

\* What a statement of r sees, and whether it may write.
View(r) == IF lock = r THEN draft ELSE stored
MayWrite(r) == lock \in {r, Nobody}

Goto(r, label) == pc' = [pc EXCEPT ![r] = label]

Version(r) == at[r].file
Statement(r) == Files[Version(r)][at[r].statement]

Applying(r) == pc[r] = "applying" /\ Version(r) \in Versions
Pending(r) == Applying(r) /\ Version(r) \notin known[r]
AtStatement(r) == Pending(r) /\ at[r].statement \in DOMAIN Files[Version(r)]
AtRow(r) == Pending(r) /\ at[r].statement = Len(Files[Version(r)]) + 1

\* IF NOT EXISTS, of something that is there.
NothingToAdd(r) == ~Statement(r).strict /\ Statement(r).adds \in View(r).tables
CanExecute(r) ==
    /\ Statement(r).on \subseteq View(r).tables
    /\ Statement(r).strict => Statement(r).adds \notin View(r).tables
----------------------------------------------------------------------------
\* Mutant of RollBack: leaving the block commits, whatever it was left by.
CommitAnyway(r) ==
    IF lock = r THEN stored' = draft /\ lock' = Nobody /\ UNCHANGED draft
    ELSE UNCHANGED database

\* The connection is closed: its transaction is gone, and so is its lock.
RollBack(r) ==
    IF lock = r THEN draft' = stored /\ lock' = Nobody /\ UNCHANGED stored
    ELSE UNCHANGED database

Whole(v) == v \in stored.rows /\ Adds(v) \subseteq stored.tables

\* An exception, or the death of the process.
Ends(r) ==
    /\ RollBack(r)
    /\ Goto(r, "down")
    /\ known' = [known EXCEPT ![r] = {}]
    /\ at' = [at EXCEPT ![r] = [file |-> 1, statement |-> 1]]
    /\ torn' = torn \cup {v \in bare[r] : ~Whole(v)}
    /\ bare' = [bare EXCEPT ![r] = {}]
    /\ UNCHANGED config

Begin(r) ==
    /\ pc[r] = "down"
    /\ IF dialect = "postgresql"
       THEN lock = Nobody /\ lock' = r /\ draft' = stored /\ UNCHANGED stored
       ELSE UNCHANGED database
    /\ Goto(r, "reading")
    /\ UNCHANGED <<config, known, at, bare, torn, crashes>>

\* _applied, after _ensure_table.
Read(r) ==
    /\ pc[r] = "reading"
    /\ known' = [known EXCEPT ![r] = View(r).rows]
    /\ Goto(r, IF View(r).rows = {} THEN "inspecting" ELSE "applying")
    /\ UNCHANGED <<config, database, at, bare, torn, crashes>>

\* _legacy_schema.
Inspect(r) ==
    /\ pc[r] = "inspecting"
    /\ Goto(r, IF Legacy \subseteq View(r).tables THEN "baselining" ELSE "applying")
    /\ UNCHANGED <<config, database, known, at, bare, torn, crashes>>

\* The INSERT of a version opens the transaction, if none is open.
Insert(r, v) ==
    /\ MayWrite(r) /\ v \notin View(r).rows
    /\ lock' = r /\ draft' = [tables |-> View(r).tables, rows |-> View(r).rows \cup {v}]
    /\ UNCHANGED stored

Baseline(r) ==
    /\ pc[r] = "baselining"
    /\ Insert(r, 1)
    /\ known' = [known EXCEPT ![r] = @ \cup {1}]
    /\ Goto(r, "applying")
    /\ UNCHANGED <<config, at, bare, torn, crashes>>

\* Mutant of Skip: the checksums are not compared.
SkipUnchecked(r) ==
    /\ Applying(r) /\ Version(r) \in known[r]
    /\ at' = [at EXCEPT ![r].file = @ + 1]
    /\ UNCHANGED <<config, database, pc, known, bare, torn, crashes>>

Skip(r) ==
    /\ Applying(r) /\ Version(r) \in known[r] \ edited
    /\ at' = [at EXCEPT ![r].file = @ + 1]
    /\ UNCHANGED <<config, database, pc, known, bare, torn, crashes>>

\* Outside of a transaction a statement is committed at once.
Execute(r) ==
    /\ AtStatement(r) /\ CanExecute(r)
    /\ IF NothingToAdd(r) THEN UNCHANGED <<database, bare>>
       ELSE LET now == [tables |-> View(r).tables \cup {Statement(r).adds},
                        rows |-> View(r).rows]
            IN  /\ MayWrite(r) /\ draft' = now /\ UNCHANGED lock
                /\ IF lock = r THEN UNCHANGED <<stored, bare>>
                   ELSE /\ stored' = now
                        /\ bare' = [bare EXCEPT ![r] = @ \cup {Version(r)}]
    /\ at' = [at EXCEPT ![r].statement = @ + 1]
    /\ UNCHANGED <<config, pc, known, torn, crashes>>

\* Mutant of Record: the next migration goes on at the statement of this one.
RecordOnly(r) ==
    /\ AtRow(r) /\ Insert(r, Version(r))
    /\ at' = [at EXCEPT ![r].file = @ + 1]
    /\ UNCHANGED <<config, pc, known, bare, torn, crashes>>

Record(r) ==
    /\ AtRow(r) /\ Insert(r, Version(r))
    /\ at' = [at EXCEPT ![r] = [file |-> Version(r) + 1, statement |-> 1]]
    /\ UNCHANGED <<config, pc, known, bare, torn, crashes>>

\* A changed file, a statement or a row that the database refuses, or the five
\* seconds that SQLite waits for its lock.
Raises(r) ==
    /\ \/ Applying(r) /\ Version(r) \in known[r] \cap edited
       \/ AtStatement(r) /\ ~CanExecute(r)
       \/ AtRow(r) /\ MayWrite(r) /\ Version(r) \in View(r).rows
       \/ pc[r] = "baselining" /\ MayWrite(r) /\ 1 \in View(r).rows
       \/ /\ ~MayWrite(r)
          /\ \/ AtStatement(r) /\ ~NothingToAdd(r)
             \/ AtRow(r) \/ pc[r] = "baselining"
    /\ Ends(r) /\ UNCHANGED crashes

\* Mutant of Commit: the lock is of the session, which goes back to the pool.
CommitOnly(r) ==
    /\ pc[r] = "applying" /\ Version(r) = Len(Files) + 1
    /\ IF lock = r THEN stored' = draft /\ UNCHANGED <<draft, lock>>
       ELSE UNCHANGED database
    /\ Goto(r, "up")
    /\ bare' = [bare EXCEPT ![r] = {}]
    /\ UNCHANGED <<config, known, at, torn, crashes>>

Commit(r) ==
    /\ pc[r] = "applying" /\ Version(r) = Len(Files) + 1
    /\ IF lock = r THEN stored' = draft /\ lock' = Nobody /\ UNCHANGED draft
       ELSE UNCHANGED database
    /\ Goto(r, "up")
    /\ bare' = [bare EXCEPT ![r] = {}]
    /\ UNCHANGED <<config, known, at, torn, crashes>>

Step(r) ==
    \/ Begin(r) \/ Read(r) \/ Inspect(r) \/ Baseline(r) \/ Skip(r)
    \/ Execute(r) \/ Record(r) \/ Raises(r) \/ Commit(r)

\* The process dies, or loses its connection.
Crash(r) ==
    /\ pc[r] # "down" /\ crashes < MaxCrashes
    /\ crashes' = crashes + 1
    /\ Ends(r)

Next == \E r \in Runners : Step(r) \/ Crash(r)

Spec == Init /\ [][Next]_vars

\* A process that is down is started again, and one that runs goes on.
FairSpec == Spec /\ \A r \in Runners : WF_vars(Step(r))
----------------------------------------------------------------------------
Schema == [tables : SUBSET UNION {Adds(v) : v \in Versions}, rows : SUBSET Versions]

TypeOK ==
    /\ dialect \in {"postgresql", "sqlite"} /\ edited \subseteq Versions
    /\ stored \in Schema /\ draft \in Schema /\ lock \in Runners \cup {Nobody}
    /\ pc \in [Runners -> {"down", "reading", "inspecting", "baselining", "applying", "up"}]
    /\ known \in [Runners -> SUBSET Versions]
    /\ at \in [Runners -> [file : 1 .. Len(Files) + 1, statement : Nat]]
    /\ \A r \in Runners : Applying(r) => at[r].statement \in 1 .. Len(Files[Version(r)]) + 1
    /\ bare \in [Runners -> SUBSET Versions] /\ torn \subseteq Versions
    /\ crashes \in 0..MaxCrashes

\* SQLite: a runner is amid this version, or one was and ended there.
Loose(v) == dialect = "sqlite" /\ (v \in torn \/ \E r \in Runners : v \in bare[r])

\* schema_migrations describes the schema: what a row says was applied is there,
\* and of what no row says nothing is, but for a whole schema from before it.
\* The exception is SQLite's.
RowsDescribeSchema ==
    \A v \in Versions :
        \/ Loose(v)
        \/ Whole(v)
        \/ v \notin stored.rows /\ Adds(v) \cap stored.tables = {}
        \/ v = 1 /\ Adds(v) \subseteq stored.tables

\* A process that came up has, with every version applied, a schema that no
\* other start, and no failed one, takes from it; none comes up when the files
\* are not the ones that were applied.
StartedMeansMigrated ==
    (\E r \in Runners : pc[r] = "up") => stored.rows = Versions /\ edited = {}

\* Whoever starts first, and wherever runners die: all processes come up.
MigrationCompletes ==
    edited = {} => \/ <>[](\A r \in Runners : pc[r] = "up")
                   \/ <>(torn # {})
=============================================================================
