--------------------------- MODULE MigrationsProofs ---------------------------
(***************************************************************************)
(* Theorems about Migrations, for any runners, files and bounds.           *)
(***************************************************************************)
EXTENDS Migrations, TLAPS

Running == {"reading", "inspecting", "baselining", "applying"}

\* The transaction of the holder, which runs, extends the database.
Transaction ==
    /\ lock = Nobody => draft = stored
    /\ stored.tables \subseteq draft.tables /\ stored.rows \subseteq draft.rows
    /\ \A r \in Runners : lock = r => pc[r] \in Running
    /\ edited \subseteq stored.rows

\* On PostgreSQL whoever runs has the lock, and commits no single statement.
OneAtATime ==
    dialect = "postgresql" =>
        /\ torn = {}
        /\ \A r \in Runners : bare[r] = {} /\ (pc[r] \in Running => lock = r)

\* Where a runner has come to, by what it sees.
Places(r) ==
    /\ pc[r] \notin {"applying", "up"} => at[r] = [file |-> 1, statement |-> 1]
    /\ pc[r] # "applying" => bare[r] = {}
    /\ pc[r] = "up" => Version(r) = Len(Files) + 1
    /\ pc[r] = "baselining" => Legacy \subseteq View(r).tables
    /\ Applying(r) /\ Version(r) \in known[r] => at[r].statement = 1

Progressed(r) ==
    /\ known[r] \subseteq View(r).rows
    /\ \A v \in Versions : v < Version(r) => v \in View(r).rows /\ v \notin edited
    /\ Pending(r) => \A i \in DOMAIN Files[Version(r)] :
           i < at[r].statement => Files[Version(r)][i].adds \in View(r).tables
    /\ \A v \in bare[r] :
           /\ v \notin known[r] /\ v <= Version(r)
           /\ v < Version(r) => Adds(v) \subseteq View(r).tables

\* RowsDescribeSchema, of the database or of a transaction.
Describes(db, v) ==
    \/ v \in db.rows /\ Adds(v) \subseteq db.tables
    \/ v \notin db.rows /\ Adds(v) \cap db.tables = {}
    \/ v = 1 /\ Adds(v) \subseteq db.tables

Described ==
    \A v \in Versions : \/ Loose(v)
                        \/ Describes(stored, v)

\* The version that the holder is amid is the exception in its transaction.
DraftDescribed ==
    \A r \in Runners, v \in Versions :
        lock = r => \/ Loose(v)
                    \/ Pending(r) /\ v = Version(r)
                    \/ Describes(draft, v)

\* The inductive invariant.
Inv ==
    /\ TypeOK /\ Transaction /\ OneAtATime
    /\ \A r \in Runners : Places(r) /\ Progressed(r)
    /\ Described /\ DraftDescribed
----------------------------------------------------------------------------
(***************************************************************************)
(* Types.                                                                  *)
(***************************************************************************)

\* The assumptions on Files, as the proofs use them.
LEMMA FilesTyped ==
    /\ Len(Files) \in Nat \ {0} /\ Versions = 1 .. Len(Files) /\ 1 \in Versions
    /\ \A v \in Versions :
           Len(Files[v]) \in Nat /\ DOMAIN Files[v] = 1 .. Len(Files[v])
    /\ Legacy \subseteq Adds(1) /\ Legacy # {} /\ Nobody \notin Runners
    /\ \A v, w \in Versions : v # w => Adds(v) \cap Adds(w) = {}
BY MigrationsAssumption DEF Versions

\* What a transaction holds, and what a statement or an insert makes of it, is a schema.
LEMMA SchemaTyped ==
    ASSUME TypeOK, NEW r \in Runners
    PROVE  /\ View(r) \in Schema
           /\ \A v \in Versions :
                  [tables |-> View(r).tables, rows |-> View(r).rows \cup {v}] \in Schema
           /\ AtStatement(r) =>
                  [tables |-> View(r).tables \cup {Statement(r).adds}, rows |-> View(r).rows]
                      \in Schema
<1>1. View(r) \in Schema
  BY DEF TypeOK, View
<1>2. AtStatement(r) => Statement(r).adds \in UNION {Adds(v) : v \in Versions}
  BY DEF AtStatement, Pending, Applying, Statement, Adds
<1> QED
  BY <1>1, <1>2 DEF Schema

LEMMA TypedInit == Init => TypeOK
<1> SUFFICES ASSUME Init PROVE TypeOK
  OBVIOUS
<1>1. stored \in Schema /\ edited \subseteq Versions
  <2>1. CASE \E k \in 0 .. Len(Files) :
                 /\ stored = [tables |-> UNION {Adds(v) : v \in 1..k}, rows |-> 1..k]
                 /\ edited \in {{}} \cup {{v} : v \in 1..k}
    <3>1. PICK k \in 0 .. Len(Files) :
              /\ stored = [tables |-> UNION {Adds(v) : v \in 1..k}, rows |-> 1..k]
              /\ edited \in {{}} \cup {{v} : v \in 1..k}
      BY <2>1
    <3>2. 1..k \subseteq Versions
      BY FilesTyped
    <3>3. UNION {Adds(v) : v \in 1..k} \subseteq UNION {Adds(v) : v \in Versions}
      BY <3>2
    <3> QED
      BY <3>1, <3>2, <3>3 DEF Schema
  <2>2. CASE stored = [tables |-> Adds(1), rows |-> {}] /\ edited = {}
    <3>1. Adds(1) \subseteq UNION {Adds(v) : v \in Versions}
      BY FilesTyped
    <3> QED
      BY <2>2, <3>1 DEF Schema
  <2> QED
    BY <2>1, <2>2 DEF Init
<1> QED
  BY <1>1, FilesTyped, MigrationsAssumption DEF Init, TypeOK, Applying, Version

\* TypeOK, but for the place in a file.
TypeBase ==
    /\ dialect \in {"postgresql", "sqlite"} /\ edited \subseteq Versions
    /\ stored \in Schema /\ draft \in Schema /\ lock \in Runners \cup {Nobody}
    /\ pc \in [Runners -> {"down", "reading", "inspecting", "baselining", "applying", "up"}]
    /\ known \in [Runners -> SUBSET Versions]
    /\ at \in [Runners -> [file : 1 .. Len(Files) + 1, statement : Nat]]
    /\ bare \in [Runners -> SUBSET Versions] /\ torn \subseteq Versions
    /\ crashes \in 0..MaxCrashes

\* A step of r changes only the place of r.
LEMMA TypedAnew ==
    ASSUME TypeOK, NEW r \in Runners, TypeBase',
           \A q \in Runners : q # r => pc'[q] = pc[q] /\ at'[q] = at[q],
           Applying(r)' => at'[r].statement \in 1 .. Len(Files[Version(r)']) + 1
    PROVE  TypeOK'
BY DEF TypeOK, TypeBase, Applying, Version

\* An ended runner and its connection.
LEMMA EndsTyped ==
    ASSUME TypeOK, NEW r \in Runners, Ends(r), crashes' \in 0..MaxCrashes
    PROVE  TypeOK'
<1>1. /\ stored' \in Schema /\ draft' \in Schema /\ lock' \in Runners \cup {Nobody}
  BY DEF Ends, RollBack, TypeOK, database
<1>2. [file |-> 1, statement |-> 1] \in [file : 1 .. Len(Files) + 1, statement : Nat]
  BY FilesTyped
<1>3. at' \in [Runners -> [file : 1 .. Len(Files) + 1, statement : Nat]]
  BY <1>2 DEF Ends, TypeOK
<1>4. /\ pc' \in [Runners -> {"down", "reading", "inspecting", "baselining", "applying", "up"}]
      /\ pc'[r] = "down"
      /\ \A q \in Runners : q # r => pc'[q] = pc[q] /\ at'[q] = at[q]
  BY DEF Ends, Goto, TypeOK
<1>5. TypeBase'
  BY <1>1, <1>3, <1>4 DEF Ends, TypeOK, TypeBase, config
<1> QED
  BY <1>4, <1>5, TypedAnew DEF Applying

LEMMA TypedStep ==
    ASSUME TypeOK, \A r \in Runners : Places(r), [Next]_vars
    PROVE  TypeOK'
<1>1. CASE UNCHANGED vars
  BY <1>1 DEF vars, config, database, runners, TypeOK, Applying, Version
<1>2. ASSUME NEW r \in Runners, Begin(r) PROVE TypeOK'
  <2>1. /\ TypeBase' /\ \A q \in Runners : q # r => pc'[q] = pc[q] /\ at'[q] = at[q]
    BY <1>2 DEF Begin, Goto, TypeOK, TypeBase, config, database
  <2>2. Applying(r)' => at'[r].statement \in 1 .. Len(Files[Version(r)']) + 1
    BY <1>2 DEF Begin, Goto, TypeOK, Applying
  <2> QED
    BY <2>1, <2>2, TypedAnew
<1>3. ASSUME NEW r \in Runners, Read(r) PROVE TypeOK'
  <2>1. /\ TypeBase' /\ \A q \in Runners : q # r => pc'[q] = pc[q] /\ at'[q] = at[q]
    BY <1>3, SchemaTyped DEF Read, Goto, TypeOK, TypeBase, Schema, config, database
  <2>2. Applying(r)' => at'[r].statement \in 1 .. Len(Files[Version(r)']) + 1
    <3>1. at'[r] = [file |-> 1, statement |-> 1]
      BY <1>3 DEF Read, Places
    <3> QED
      BY <3>1, FilesTyped DEF Version
  <2> QED
    BY <2>1, <2>2, TypedAnew
<1>4. ASSUME NEW r \in Runners, Inspect(r) PROVE TypeOK'
  <2>1. /\ TypeBase' /\ \A q \in Runners : q # r => pc'[q] = pc[q] /\ at'[q] = at[q]
    BY <1>4 DEF Inspect, Goto, TypeOK, TypeBase, config, database
  <2>2. Applying(r)' => at'[r].statement \in 1 .. Len(Files[Version(r)']) + 1
    <3>1. at'[r] = [file |-> 1, statement |-> 1]
      BY <1>4 DEF Inspect, Places
    <3> QED
      BY <3>1, FilesTyped DEF Version
  <2> QED
    BY <2>1, <2>2, TypedAnew
<1>5. ASSUME NEW r \in Runners, Baseline(r) PROVE TypeOK'
  <2>0. /\ stored' \in Schema /\ draft' \in Schema /\ lock' \in Runners \cup {Nobody}
    BY <1>5, SchemaTyped, FilesTyped DEF Baseline, Insert, TypeOK
  <2>1. /\ TypeBase' /\ \A q \in Runners : q # r => pc'[q] = pc[q] /\ at'[q] = at[q]
    BY <1>5, <2>0, FilesTyped DEF Baseline, Goto, TypeOK, TypeBase, config
  <2>2. Applying(r)' => at'[r].statement \in 1 .. Len(Files[Version(r)']) + 1
    BY <1>5, SchemaTyped DEF Baseline, Goto, Places, TypeOK, Applying, Version
  <2> QED
    BY <2>1, <2>2, TypedAnew
<1>6. ASSUME NEW r \in Runners, Skip(r) PROVE TypeOK'
  <2>0. at[r].file + 1 \in 1 .. Len(Files) + 1 /\ at[r].statement \in Nat
    BY <1>6, FilesTyped DEF Skip, Applying, Version, TypeOK
  <2>3. at' \in [Runners -> [file : 1 .. Len(Files) + 1, statement : Nat]]
    BY <1>6, <2>0 DEF Skip, TypeOK
  <2>1. /\ TypeBase' /\ \A q \in Runners : q # r => pc'[q] = pc[q] /\ at'[q] = at[q]
    BY <1>6, <2>3 DEF Skip, Applying, Version, TypeOK, TypeBase, config, database
  <2>2. Applying(r)' => at'[r].statement \in 1 .. Len(Files[Version(r)']) + 1
    BY <1>6 DEF Skip, Places, TypeOK, Applying, Version
  <2> QED
    BY <2>1, <2>2, TypedAnew
<1>7. ASSUME NEW r \in Runners, Execute(r) PROVE TypeOK'
  <2>0. /\ stored' \in Schema /\ draft' \in Schema /\ lock' \in Runners \cup {Nobody}
    BY <1>7, SchemaTyped DEF Execute, TypeOK, database
  <2>5. Version(r) \in Versions
    BY <1>7 DEF Execute, AtStatement, Pending, Applying
  <2>3. bare' \in [Runners -> SUBSET Versions]
    <3>1. bare' = bare \/ bare' = [bare EXCEPT ![r] = @ \cup {Version(r)}]
      BY <1>7 DEF Execute
    <3>2. bare \in [Runners -> SUBSET Versions]
      BY DEF TypeOK
    <3> QED
      BY <2>5, <3>1, <3>2
  <2>4. at' \in [Runners -> [file : 1 .. Len(Files) + 1, statement : Nat]]
    <3>1. at[r].file \in 1 .. Len(Files) + 1 /\ at[r].statement + 1 \in Nat
      BY DEF TypeOK
    <3>2. at \in [Runners -> [file : 1 .. Len(Files) + 1, statement : Nat]]
      BY DEF TypeOK
    <3>3. at' = [at EXCEPT ![r] = [at[r] EXCEPT !.statement = @ + 1]]
      BY <1>7 DEF Execute
    <3>4. at[r] \in [file : 1 .. Len(Files) + 1, statement : Nat]
      BY <3>2
    <3>5. [at[r] EXCEPT !.statement = @ + 1] \in [file : 1 .. Len(Files) + 1, statement : Nat]
      BY <3>1, <3>4
    <3> QED
      BY <3>2, <3>3, <3>5
  <2>1. /\ TypeBase' /\ \A q \in Runners : q # r => pc'[q] = pc[q] /\ at'[q] = at[q]
    BY <1>7, <2>0, <2>3, <2>4 DEF Execute, TypeOK, TypeBase, config
  <2>2. Applying(r)' => at'[r].statement \in 1 .. Len(Files[Version(r)']) + 1
    <3>1. /\ at'[r].file = at[r].file /\ at'[r].statement = at[r].statement + 1
      BY <1>7 DEF Execute, TypeOK
    <3>2. at[r].statement \in 1 .. Len(Files[Version(r)])
      BY <1>7, FilesTyped DEF Execute, AtStatement, Pending, Applying
    <3> QED
      BY <2>5, <3>1, <3>2, FilesTyped DEF Version
  <2> QED
    BY <2>1, <2>2, TypedAnew
<1>8. ASSUME NEW r \in Runners, Record(r) PROVE TypeOK'
  <2>0. /\ stored' \in Schema /\ draft' \in Schema /\ lock' \in Runners \cup {Nobody}
    BY <1>8, SchemaTyped DEF Record, AtRow, Pending, Applying, Insert, TypeOK
  <2>3. [file |-> Version(r) + 1, statement |-> 1] \in [file : 1 .. Len(Files) + 1, statement : Nat]
    BY <1>8, FilesTyped DEF Record, AtRow, Pending, Applying
  <2>1. /\ TypeBase' /\ \A q \in Runners : q # r => pc'[q] = pc[q] /\ at'[q] = at[q]
    BY <1>8, <2>0, <2>3 DEF Record, TypeOK, TypeBase, config
  <2>2. Applying(r)' => at'[r].statement \in 1 .. Len(Files[Version(r)']) + 1
    BY <1>8, SchemaTyped DEF Record, AtRow, Pending, Places, TypeOK, Applying, Version
  <2> QED
    BY <2>1, <2>2, TypedAnew
<1>9. ASSUME NEW r \in Runners, Raises(r) PROVE TypeOK'
  BY <1>9, EndsTyped DEF Raises, TypeOK
<1>10. ASSUME NEW r \in Runners, Commit(r) PROVE TypeOK'
  <2>1. /\ TypeBase' /\ \A q \in Runners : q # r => pc'[q] = pc[q] /\ at'[q] = at[q]
    BY <1>10 DEF Commit, Goto, TypeOK, TypeBase, config, database
  <2>2. Applying(r)' => at'[r].statement \in 1 .. Len(Files[Version(r)']) + 1
    BY <1>10 DEF Commit, Goto, TypeOK, Applying
  <2> QED
    BY <2>1, <2>2, TypedAnew
<1>11. ASSUME NEW r \in Runners, Crash(r) PROVE TypeOK'
  <2>1. crashes' \in 0..MaxCrashes
    BY <1>11, MigrationsAssumption DEF Crash, TypeOK
  <2> QED
    BY <1>11, <2>1, EndsTyped DEF Crash
<1> QED
  BY <1>1, <1>2, <1>3, <1>4, <1>5, <1>6, <1>7, <1>8, <1>9, <1>10, <1>11 DEF Next, Step
----------------------------------------------------------------------------
(***************************************************************************)
(* A step of one runner, as the others see it.                             *)
(***************************************************************************)
Framed(r) ==
    /\ stored.tables \subseteq stored'.tables /\ stored.rows \subseteq stored'.rows
    /\ torn \subseteq torn' /\ edited' = edited /\ dialect' = dialect
    /\ \A q \in Runners : q # r =>
           /\ pc'[q] = pc[q] /\ known'[q] = known[q] /\ at'[q] = at[q] /\ bare'[q] = bare[q]
           /\ lock = q => stored' = stored /\ draft' = draft /\ lock' = q
           /\ lock # q => lock' # q

LEMMA FramedStep ==
    ASSUME TypeOK, Transaction, NEW r \in Runners, Step(r) \/ Crash(r)
    PROVE  Framed(r)
<1> USE DEF TypeOK, Transaction, Framed, config, database
<1>0. Nobody \notin Runners
  BY FilesTyped
<1>1. CASE Begin(r)
  BY <1>0, <1>1 DEF Begin, Goto
<1>2. CASE Read(r)
  BY <1>0, <1>2 DEF Read, Goto
<1>3. CASE Inspect(r)
  BY <1>0, <1>3 DEF Inspect, Goto
<1>4. CASE Baseline(r)
  BY <1>0, <1>4 DEF Baseline, Insert, Goto, View, MayWrite
<1>5. CASE Skip(r)
  BY <1>0, <1>5 DEF Skip
<1>6. CASE Execute(r)
  BY <1>0, <1>6 DEF Execute, View, MayWrite
<1>7. CASE Record(r)
  BY <1>0, <1>7 DEF Record, Insert, View, MayWrite
<1>8. CASE Raises(r)
  BY <1>0, <1>8 DEF Raises, Ends, RollBack, Goto
<1>9. CASE Commit(r)
  BY <1>0, <1>9 DEF Commit, Goto
<1>10. CASE Crash(r)
  BY <1>0, <1>10 DEF Crash, Ends, RollBack, Goto
<1> QED
  BY <1>1, <1>2, <1>3, <1>4, <1>5, <1>6, <1>7, <1>8, <1>9, <1>10 DEF Step

\* What another runner sees only grows.
LEMMA OthersProgress ==
    ASSUME TypeOK, NEW r \in Runners, Framed(r), NEW q \in Runners, q # r,
           Places(q), Progressed(q)
    PROVE  Places(q)' /\ Progressed(q)'
<1>1. /\ View(q).tables \subseteq View(q)'.tables /\ View(q).rows \subseteq View(q)'.rows
      /\ pc'[q] = pc[q] /\ known'[q] = known[q] /\ at'[q] = at[q] /\ bare'[q] = bare[q]
      /\ edited' = edited
  BY DEF Framed, View
<1>2. Applying(q)' = Applying(q) /\ Pending(q)' = Pending(q) /\ Version(q)' = Version(q)
  BY <1>1 DEF Applying, Pending, Version
<1>3. Places(q)'
  BY <1>1, <1>2 DEF Places
<1>4. Progressed(q)'
  BY <1>1, <1>2 DEF Progressed
<1> QED
  BY <1>3, <1>4

\* What a step has to show of the schema, for the invariant to know it described.
LEMMA DescribedAnew ==
    ASSUME Inv, NEW r \in Runners, Framed(r), Transaction',
           \A v \in Versions : Loose(v) => Loose(v)' \/ Whole(v)',
           \A v \in Versions : Describes(stored, v) => Loose(v)' \/ Describes(stored', v),
           \A v \in Versions : lock' = r =>
               Loose(v)' \/ (Pending(r)' /\ v = Version(r)') \/ Describes(draft', v)
    PROVE  Described' /\ DraftDescribed'
<1>1. Described'
  BY DEF Inv, Described, Describes, Whole
<1>2. ASSUME NEW q \in Runners, q # r, lock' = q, NEW v \in Versions
      PROVE  Loose(v)' \/ (Pending(q)' /\ v = Version(q)') \/ Describes(draft', v)
  <2>1. /\ lock = q /\ draft' = draft
        /\ pc'[q] = pc[q] /\ known'[q] = known[q] /\ at'[q] = at[q]
    BY <1>2 DEF Framed
  <2>2. (Pending(q)' <=> Pending(q)) /\ Version(q)' = Version(q)
    BY <2>1 DEF Applying, Pending, Version
  <2>3. Whole(v)' => Describes(draft', v)
    BY DEF Transaction, Whole, Describes
  <2> QED
    BY <2>1, <2>2, <2>3 DEF Inv, DraftDescribed
<1>3. DraftDescribed'
  BY <1>2 DEF DraftDescribed, Describes
<1> QED
  BY <1>1, <1>3

\* What a step of r has to show.
Kept(r) ==
    /\ Transaction'
    /\ dialect = "postgresql" =>
           /\ torn' = {} /\ bare'[r] = {}
           /\ pc'[r] \in Running => lock' = r
    /\ Places(r)' /\ Progressed(r)'
    /\ \A v \in Versions : Loose(v) => Loose(v)' \/ Whole(v)'
    /\ \A v \in Versions : Describes(stored, v) => Loose(v)' \/ Describes(stored', v)
    /\ \A v \in Versions : lock' = r =>
           Loose(v)' \/ (Pending(r)' /\ v = Version(r)') \/ Describes(draft', v)

LEMMA InvAnew ==
    ASSUME Inv, TypeOK', NEW r \in Runners, Framed(r), Kept(r)
    PROVE  Inv'
<1>1. Described' /\ DraftDescribed'
  BY DescribedAnew DEF Kept
<1>2. \A q \in Runners : Places(q)' /\ Progressed(q)'
  BY OthersProgress DEF Kept, Inv
<1>3. OneAtATime'
  BY DEF Inv, OneAtATime, Kept, Framed
<1> QED
  BY <1>1, <1>2, <1>3 DEF Inv, Kept
----------------------------------------------------------------------------
(***************************************************************************)
(* Every step keeps the invariant.                                         *)
(***************************************************************************)

\* A step that leaves the database and its bare statements alone.
LEMMA QuietStep ==
    ASSUME Inv, NEW r \in Runners, UNCHANGED <<stored, draft, lock, edited, dialect, torn, bare>>,
           pc[r] \in Running, pc' = [pc EXCEPT ![r] = pc'[r]], pc'[r] \in Running,
           Places(r)', Progressed(r)',
           Pending(r) => Pending(r)' /\ Version(r)' = Version(r)
    PROVE  Kept(r)
<1>1. Transaction'
  BY DEF Inv, Transaction, TypeOK
<1>2. \A v \in Versions : Loose(v)' <=> Loose(v)
  BY DEF Loose
<1>3. ASSUME NEW v \in Versions, lock' = r
      PROVE  Loose(v)' \/ (Pending(r)' /\ v = Version(r)') \/ Describes(draft', v)
  BY <1>2, <1>3 DEF Inv, DraftDescribed
<1>4. dialect = "postgresql" =>
          torn' = {} /\ bare'[r] = {} /\ (pc'[r] \in Running => lock' = r)
  BY DEF Inv, OneAtATime
<1> QED
  BY <1>1, <1>2, <1>3, <1>4 DEF Kept

LEMMA ReadKeeps ==
    ASSUME Inv, NEW r \in Runners, Read(r)
    PROVE  Kept(r)
<1>1. /\ at'[r] = [file |-> 1, statement |-> 1] /\ bare'[r] = {} /\ View(r)' = View(r)
      /\ known'[r] = View(r).rows /\ pc'[r] \in {"inspecting", "applying"}
  BY DEF Read, Goto, Inv, TypeOK, Places, View, database
<1>2. Places(r)'
  BY <1>1 DEF Places, Version
<1>3. Progressed(r)'
  <2>1. Version(r)' = 1 /\ at'[r].statement = 1
    BY <1>1 DEF Version
  <2>2. \A v \in Versions : ~(v < 1)
    BY DEF Versions
  <2>3. Pending(r)' => \A i \in DOMAIN Files[1] : ~(i < 1)
    BY FilesTyped
  <2> QED
    BY <1>1, <2>1, <2>2, <2>3 DEF Progressed
<1>4. ~Pending(r)
  BY DEF Read, Pending, Applying
<1> QED
  BY <1>1, <1>2, <1>3, <1>4, QuietStep DEF Read, Goto, config, database, Running, Inv, TypeOK

LEMMA InspectKeeps ==
    ASSUME Inv, NEW r \in Runners, Inspect(r)
    PROVE  Kept(r)
<1>1. /\ at'[r] = [file |-> 1, statement |-> 1] /\ bare'[r] = {} /\ View(r)' = View(r)
      /\ known'[r] = known[r]
      /\ pc'[r] = IF Legacy \subseteq View(r).tables THEN "baselining" ELSE "applying"
  BY DEF Inspect, Goto, Inv, TypeOK, Places, View, database
<1>2. Places(r)'
  BY <1>1 DEF Places, Version
<1>3. Progressed(r)'
  <2>1. Version(r)' = 1 /\ at'[r].statement = 1
    BY <1>1 DEF Version
  <2>2. \A v \in Versions : ~(v < 1)
    BY DEF Versions
  <2>3. Pending(r)' => \A i \in DOMAIN Files[1] : ~(i < 1)
    BY FilesTyped
  <2> QED
    BY <1>1, <2>1, <2>2, <2>3 DEF Progressed, Inv
<1>4. ~Pending(r)
  BY DEF Inspect, Pending, Applying
<1> QED
  BY <1>1, <1>2, <1>3, <1>4, QuietStep DEF Inspect, Goto, config, database, Running, Inv, TypeOK

LEMMA SkipKeeps ==
    ASSUME Inv, NEW r \in Runners, Skip(r)
    PROVE  Kept(r)
<1>1. /\ Version(r) \in Versions /\ Version(r) \in known[r] /\ Version(r) \notin edited
      /\ at'[r].file = Version(r) + 1 /\ at'[r].statement = at[r].statement
      /\ at[r].statement = 1 /\ pc[r] = "applying"
  BY DEF Skip, Applying, Version, Inv, TypeOK, Places
<1>2. /\ View(r)' = View(r) /\ known' = known /\ bare' = bare /\ pc' = pc /\ edited' = edited
  BY DEF Skip, View, config, database
<1>3. Version(r)' = Version(r) + 1
  BY <1>1 DEF Version
<1>4. Places(r)'
  BY <1>1, <1>2 DEF Places
<1>5. Progressed(r)'
  <2>1. \A v \in Versions : v < Version(r) + 1 => v \in View(r).rows /\ v \notin edited
    BY <1>1 DEF Inv, Progressed, Versions
  <2>2. Pending(r)' => Version(r)' \in Versions
    BY DEF Pending, Applying
  <2>3. Pending(r)' => \A i \in DOMAIN Files[Version(r)'] : ~(i < 1)
    BY <2>2, FilesTyped
  <2>4. \A v \in bare[r] : /\ v \notin known[r] /\ v <= Version(r) + 1
                           /\ v < Version(r) + 1 => Adds(v) \subseteq View(r).tables
    <3>1. \A v \in bare[r] : v \in Nat /\ v # Version(r)
      BY <1>1 DEF Inv, Progressed, TypeOK, Versions
    <3> QED
      BY <1>1, <3>1 DEF Inv, Progressed, Versions
  <2>5. known[r] \subseteq View(r).rows
    BY DEF Inv, Progressed
  <2> QED
    BY <1>1, <1>2, <1>3, <2>1, <2>3, <2>4, <2>5 DEF Progressed
<1>6. ~Pending(r)
  BY <1>1 DEF Pending
<1> QED
  BY <1>1, <1>2, <1>4, <1>5, <1>6, QuietStep DEF Skip, config, database, Running, Inv, TypeOK

LEMMA BeginKeeps ==
    ASSUME Inv, NEW r \in Runners, Begin(r)
    PROVE  Kept(r)
<1>1. /\ at'[r] = [file |-> 1, statement |-> 1] /\ bare' = bare /\ bare[r] = {}
      /\ known' = known /\ pc[r] = "down" /\ pc'[r] = "reading" /\ lock # r
      /\ stored' = stored /\ edited' = edited /\ dialect' = dialect /\ torn' = torn
  BY DEF Begin, Goto, Inv, TypeOK, Places, Transaction, Running, config, database
<1>2. lock' = r => draft' = stored
  BY <1>1 DEF Begin, database
<1>3. View(r)' = stored /\ View(r) = stored
  BY <1>1, <1>2 DEF View
<1>4. Places(r)'
  BY <1>1 DEF Places, Applying
<1>5. Progressed(r)'
  <2>1. Version(r)' = 1 /\ ~Pending(r)'
    BY <1>1 DEF Version, Pending, Applying
  <2>2. \A v \in Versions : ~(v < 1)
    BY DEF Versions
  <2> QED
    BY <1>1, <1>3, <2>1, <2>2 DEF Progressed, Inv
<1>6. Transaction'
  <2>1. lock = Nobody => draft = stored
    BY DEF Inv, Transaction
  <2>2. stored.tables \subseteq draft'.tables /\ stored.rows \subseteq draft'.rows
    BY DEF Begin, Inv, Transaction, database
  <2>3. \A q \in Runners : lock' = q => pc'[q] \in Running
    BY <1>1 DEF Begin, Goto, Inv, TypeOK, Transaction, Running, database
  <2>4. lock' = Nobody => draft' = stored
    BY <2>1, FilesTyped DEF Begin, database
  <2> QED
    BY <1>1, <2>2, <2>3, <2>4 DEF Inv, Transaction
<1>7. \A v \in Versions : Loose(v)' <=> Loose(v)
  BY <1>1 DEF Loose
<1>8. \A v \in Versions : lock' = r => Loose(v)' \/ Describes(draft', v)
  BY <1>2, <1>7 DEF Inv, Described
<1>9. dialect = "postgresql" => torn' = {} /\ bare'[r] = {} /\ lock' = r
  BY <1>1 DEF Begin, Inv, OneAtATime
<1> QED
  BY <1>1, <1>4, <1>5, <1>6, <1>7, <1>8, <1>9 DEF Kept

\* What an insert makes of the transaction.
LEMMA Inserts ==
    ASSUME Inv, NEW r \in Runners, NEW v \in Versions, Insert(r, v), pc[r] \in Running,
           UNCHANGED <<edited, pc>>  \/ (edited' = edited /\ pc' = [pc EXCEPT ![r] = "applying"])
    PROVE  /\ lock' = r /\ View(r)' = draft' /\ stored' = stored
           /\ draft'.tables = View(r).tables /\ draft'.rows = View(r).rows \cup {v}
           /\ v \notin View(r).rows /\ v \notin edited
           /\ stored.tables \subseteq View(r).tables /\ stored.rows \subseteq View(r).rows
           /\ Transaction'
<1>1. /\ lock' = r /\ View(r)' = draft' /\ stored' = stored
      /\ draft'.tables = View(r).tables /\ draft'.rows = View(r).rows \cup {v}
      /\ v \notin View(r).rows
  BY DEF Insert, View
<1>2. stored.tables \subseteq View(r).tables /\ stored.rows \subseteq View(r).rows
  BY DEF Inv, Transaction, View
<1>3. v \notin edited
  BY <1>1, <1>2 DEF Inv, Transaction
<1>4. pc'[r] \in Running
  BY DEF Inv, TypeOK, Running
<1>5. Transaction'
  BY <1>1, <1>2, <1>4, FilesTyped DEF Inv, Transaction
<1> QED
  BY <1>1, <1>2, <1>3, <1>5

\* What a runner sees is described, but for the version it is amid.
LEMMA ViewDescribed ==
    ASSUME Inv, NEW r \in Runners, NEW v \in Versions, ~Pending(r) \/ v # Version(r)
    PROVE  Loose(v) \/ Describes(View(r), v)
BY DEF Inv, Described, DraftDescribed, View

LEMMA BaselineKeeps ==
    ASSUME Inv, NEW r \in Runners, Baseline(r)
    PROVE  Kept(r)
<1>1. /\ at'[r] = [file |-> 1, statement |-> 1] /\ bare' = bare /\ bare[r] = {} /\ torn' = torn
      /\ known'[r] = known[r] \cup {1} /\ pc[r] = "baselining" /\ pc'[r] = "applying"
      /\ Legacy \subseteq View(r).tables /\ dialect' = dialect
  BY DEF Baseline, Goto, Inv, TypeOK, Places, config
<1>2. /\ lock' = r /\ View(r)' = draft' /\ stored' = stored
      /\ draft'.tables = View(r).tables /\ draft'.rows = View(r).rows \cup {1}
      /\ 1 \notin View(r).rows /\ Transaction'
  BY <1>1, Inserts, FilesTyped DEF Baseline, Goto, Running, config
<1>3. Places(r)'
  BY <1>1 DEF Places, Version
<1>4. Progressed(r)'
  <2>1. Version(r)' = 1 /\ ~Pending(r)'
    BY <1>1 DEF Version, Pending, Applying
  <2>2. \A v \in Versions : ~(v < 1)
    BY DEF Versions
  <2>3. known'[r] \subseteq draft'.rows
    BY <1>1, <1>2 DEF Inv, Progressed
  <2> QED
    BY <1>1, <1>2, <2>1, <2>2, <2>3 DEF Progressed
<1>5. \A v \in Versions : Loose(v)' <=> Loose(v)
  BY <1>1 DEF Loose
<1>6. ASSUME NEW v \in Versions PROVE Loose(v) \/ Describes(draft', v)
  <2>1. Loose(v) \/ Describes(View(r), v)
    BY <1>1, ViewDescribed DEF Pending, Applying
  <2>2. CASE v # 1
    BY <1>2, <2>1, <2>2 DEF Describes
  <2>3. CASE v = 1
    <3>1. Adds(1) \cap View(r).tables # {}
      BY <1>1, FilesTyped
    <3>2. Loose(1) \/ Adds(1) \subseteq View(r).tables
      BY <2>1, <2>3, <3>1 DEF Describes
    <3> QED
      BY <1>2, <2>3, <3>2 DEF Describes
  <2> QED
    BY <2>2, <2>3
<1>7. dialect = "postgresql" => torn' = {} /\ bare'[r] = {}
  BY <1>1 DEF Inv, OneAtATime
<1> QED
  BY <1>1, <1>2, <1>3, <1>4, <1>5, <1>6, <1>7 DEF Kept

LEMMA RecordKeeps ==
    ASSUME Inv, NEW r \in Runners, Record(r)
    PROVE  Kept(r)
<1>1. /\ pc[r] = "applying" /\ Version(r) \in Versions /\ Version(r) \notin known[r]
      /\ at[r].statement = Len(Files[Version(r)]) + 1 /\ Pending(r)
      /\ pc' = pc /\ bare' = bare /\ torn' = torn /\ known' = known /\ dialect' = dialect
      /\ edited' = edited
  BY DEF Record, AtRow, Pending, Applying, config
<1>2. /\ lock' = r /\ View(r)' = draft' /\ stored' = stored
      /\ draft'.tables = View(r).tables /\ draft'.rows = View(r).rows \cup {Version(r)}
      /\ Version(r) \notin edited /\ Transaction'
  BY <1>1, Inserts DEF Record, Running
<1>3. at'[r].statement = 1 /\ Version(r)' = Version(r) + 1
  BY DEF Record, Inv, TypeOK, Version
<1>4. Adds(Version(r)) \subseteq View(r).tables
  <2>1. \A i \in DOMAIN Files[Version(r)] : i < at[r].statement
    BY <1>1, FilesTyped
  <2> QED
    BY <1>1, <2>1 DEF Inv, Progressed, Adds
<1>5. Places(r)'
  BY <1>1, <1>3 DEF Places
<1>6. Progressed(r)'
  <2>1. \A v \in Versions : v < Version(r) + 1 => v \in draft'.rows /\ v \notin edited
    BY <1>1, <1>2 DEF Inv, Progressed, Versions
  <2>2. Pending(r)' => Version(r)' \in Versions
    BY DEF Pending, Applying
  <2>3. Pending(r)' => \A i \in DOMAIN Files[Version(r)'] : ~(i < 1)
    BY <2>2, FilesTyped
  <2>4. \A v \in bare[r] : /\ v \notin known[r] /\ v <= Version(r) + 1
                           /\ v < Version(r) + 1 => Adds(v) \subseteq View(r).tables
    <3>1. \A v \in bare[r] : v \in Nat
      BY DEF Inv, TypeOK, Versions
    <3> QED
      BY <1>1, <1>4, <3>1 DEF Inv, Progressed, Versions
  <2>5. known[r] \subseteq draft'.rows
    BY <1>2 DEF Inv, Progressed
  <2> QED
    BY <1>1, <1>2, <1>3, <2>1, <2>3, <2>4, <2>5 DEF Progressed
<1>7. \A v \in Versions : Loose(v)' <=> Loose(v)
  BY <1>1 DEF Loose
<1>8. ASSUME NEW v \in Versions PROVE Loose(v) \/ Describes(draft', v)
  <2>1. CASE v = Version(r)
    BY <1>2, <1>4, <2>1 DEF Describes
  <2>2. CASE v # Version(r)
    BY <1>2, <2>2, ViewDescribed DEF Describes
  <2> QED
    BY <2>1, <2>2
<1>9. dialect = "postgresql" => torn' = {} /\ bare'[r] = {}
  BY <1>1 DEF Inv, OneAtATime
<1> QED
  BY <1>2, <1>5, <1>6, <1>7, <1>8, <1>9 DEF Kept

\* An exception or a death.
LEMMA EndsKeeps ==
    ASSUME Inv, NEW r \in Runners, Ends(r)
    PROVE  Kept(r)
<1>1. /\ at'[r] = [file |-> 1, statement |-> 1] /\ bare'[r] = {} /\ known'[r] = {}
      /\ pc'[r] = "down" /\ stored' = stored /\ edited' = edited /\ dialect' = dialect
      /\ \A q \in Runners : q # r => bare'[q] = bare[q] /\ pc'[q] = pc[q]
      /\ lock' # r /\ (lock = r => lock' = Nobody /\ draft' = stored)
      /\ (lock # r => lock' = lock /\ draft' = draft)
  BY FilesTyped DEF Ends, RollBack, Goto, Inv, TypeOK, config, database
<1>2. Places(r)'
  BY <1>1 DEF Places, Applying
<1>3. Progressed(r)'
  <2>1. Version(r)' = 1 /\ ~Pending(r)'
    BY <1>1 DEF Version, Pending, Applying
  <2>2. \A v \in Versions : ~(v < 1)
    BY DEF Versions
  <2> QED
    BY <1>1, <2>1, <2>2 DEF Progressed
<1>4. Transaction'
  BY <1>1, FilesTyped DEF Inv, Transaction
<1>5. ASSUME NEW v \in Versions, Loose(v) PROVE Loose(v)' \/ Whole(v)'
  <2>1. CASE v \in bare[r]
    BY <1>1, <1>5, <2>1 DEF Ends, Loose, Whole
  <2>2. CASE v \notin bare[r]
    BY <1>1, <1>5, <2>2 DEF Ends, Loose
  <2> QED
    BY <2>1, <2>2
<1>6. dialect = "postgresql" => torn' = {}
  BY DEF Ends, Inv, OneAtATime
<1> QED
  BY <1>1, <1>2, <1>3, <1>4, <1>5, <1>6 DEF Kept, Running, Describes

LEMMA CommitKeeps ==
    ASSUME Inv, NEW r \in Runners, Commit(r)
    PROVE  Kept(r)
<1>1. /\ pc[r] = "applying" /\ Version(r) = Len(Files) + 1 /\ Version(r)' = Version(r)
      /\ pc'[r] = "up" /\ known' = known /\ bare'[r] = {} /\ edited' = edited
      /\ dialect' = dialect /\ torn' = torn
      /\ \A q \in Runners : q # r => bare'[q] = bare[q] /\ pc'[q] = pc[q]
  BY DEF Commit, Goto, Inv, TypeOK, Version, config
<1>2. /\ lock' # r /\ stored' = View(r) /\ draft' = draft
      /\ lock # r => lock' = lock
      /\ lock = r => lock' = Nobody
  BY FilesTyped DEF Commit, View, database
<1>3. View(r)' = View(r)
  BY <1>2 DEF View
<1>4. \A v \in Versions : v < Version(r)
  BY <1>1, FilesTyped
<1>5. Places(r)'
  BY <1>1 DEF Places, Applying
<1>6. Progressed(r)'
  <2>1. ~Pending(r)'
    BY <1>1 DEF Pending, Applying
  <2> QED
    BY <1>1, <1>3, <2>1 DEF Inv, Progressed
<1>7. Transaction'
  <2>1. CASE lock = r
    BY <1>1, <1>2, <2>1, FilesTyped DEF Inv, Transaction, View
  <2>2. CASE lock # r
    BY <1>1, <1>2, <2>2 DEF Inv, Transaction, View
  <2> QED
    BY <2>1, <2>2
<1>8. ASSUME NEW v \in Versions, Loose(v) PROVE Loose(v)' \/ Whole(v)'
  <2>1. CASE v \in bare[r]
    BY <1>2, <1>4, <2>1 DEF Inv, Progressed, Whole
  <2>2. CASE v \notin bare[r]
    BY <1>1, <1>8, <2>2 DEF Loose
  <2> QED
    BY <2>1, <2>2
<1>9. ASSUME NEW v \in Versions PROVE Loose(v)' \/ Describes(stored', v)
  <2>1. ~Pending(r)
    BY <1>1, <1>4, FilesTyped DEF Pending, Applying
  <2>2. Whole(v)' => Describes(stored', v)
    BY DEF Whole, Describes
  <2> QED
    BY <1>2, <1>8, <2>1, <2>2, ViewDescribed
<1>10. dialect = "postgresql" => torn' = {}
  BY <1>1 DEF Inv, OneAtATime
<1> QED
  BY <1>1, <1>2, <1>5, <1>6, <1>7, <1>8, <1>9, <1>10 DEF Kept, Running

\* What a statement makes of a version, and of the others.
LEMMA StatementAdds ==
    ASSUME NEW r \in Runners, AtStatement(r), NEW db, NEW now, now.rows = db.rows,
           now.tables = db.tables \cup {Statement(r).adds},
           NEW v \in Versions, v # Version(r), Describes(db, v)
    PROVE  Describes(now, v)
<1>1. Statement(r).adds \in Adds(Version(r)) /\ Version(r) \in Versions
  BY DEF AtStatement, Pending, Applying, Adds, Statement
<1>2. Statement(r).adds \notin Adds(v)
  BY <1>1, FilesTyped
<1> QED
  BY <1>2 DEF Describes

LEMMA ExecuteKeeps ==
    ASSUME Inv, NEW r \in Runners, Execute(r)
    PROVE  Kept(r)
<1> DEFINE now == [tables |-> View(r).tables \cup {Statement(r).adds}, rows |-> View(r).rows]
<1>1. /\ AtStatement(r) /\ Pending(r) /\ pc[r] = "applying" /\ Version(r) \in Versions
      /\ Version(r) \notin known[r] /\ at[r].statement \in DOMAIN Files[Version(r)]
      /\ pc' = pc /\ known' = known /\ torn' = torn /\ edited' = edited /\ dialect' = dialect
  BY DEF Execute, AtStatement, Pending, Applying, config
<1>2. Version(r)' = Version(r) /\ at'[r].statement = at[r].statement + 1
  BY DEF Execute, Inv, TypeOK, Version
<1>3. lock' = lock
  BY DEF Execute, database
<1>4. \/ /\ stored' = stored /\ draft' = draft /\ bare' = bare
         /\ Statement(r).adds \in View(r).tables
      \/ lock = r /\ stored' = stored /\ draft' = now /\ bare' = bare
      \/ /\ lock = Nobody /\ stored' = now /\ draft' = now
         /\ bare' = [bare EXCEPT ![r] = @ \cup {Version(r)}]
  BY DEF Execute, NothingToAdd, MayWrite, database
<1>5. /\ View(r).tables \subseteq View(r)'.tables /\ View(r)'.rows = View(r).rows
      /\ Statement(r).adds \in View(r)'.tables
  BY <1>3, <1>4, FilesTyped DEF View
<1>6. /\ bare[r] \subseteq bare'[r] /\ bare'[r] \subseteq bare[r] \cup {Version(r)}
      /\ \A q \in Runners : q # r => bare'[q] = bare[q]
  BY <1>4 DEF Inv, TypeOK
<1>7. Places(r)'
  BY <1>1, <1>2 DEF Places
<1>8. Progressed(r)'
  <2>1. \A i \in DOMAIN Files[Version(r)] :
            i < at[r].statement + 1 => Files[Version(r)][i].adds \in View(r)'.tables
    <3>1. ASSUME NEW i \in DOMAIN Files[Version(r)], i < at[r].statement + 1
          PROVE  Files[Version(r)][i].adds \in View(r)'.tables
      <4>1. i < at[r].statement \/ i = at[r].statement
        BY <1>1, <3>1, FilesTyped
      <4> QED
        BY <1>1, <1>5, <4>1 DEF Inv, Progressed, Statement
    <3> QED
      BY <3>1
  <2>2. ASSUME NEW v \in bare'[r]
        PROVE  /\ v \notin known[r] /\ v <= Version(r)
               /\ v < Version(r) => Adds(v) \subseteq View(r)'.tables
    BY <1>1, <1>5, <1>6 DEF Inv, Progressed, Versions
  <2>3. known[r] \subseteq View(r)'.rows
    BY <1>5 DEF Inv, Progressed
  <2>4. \A v \in Versions : v < Version(r) => v \in View(r)'.rows /\ v \notin edited
    BY <1>5 DEF Inv, Progressed
  <2> QED
    BY <1>1, <1>2, <2>1, <2>2, <2>3, <2>4 DEF Progressed
<1>9. Transaction'
  <2>1. lock = Nobody => lock # r
    BY FilesTyped
  <2>2. stored.tables \subseteq View(r).tables /\ stored.rows \subseteq View(r).rows
    BY DEF Inv, Transaction, View
  <2>3. lock = Nobody => View(r) = stored
    BY <2>1 DEF View
  <2> QED
    BY <1>1, <1>3, <1>4, <2>1, <2>2, <2>3 DEF Inv, Transaction
<1>10. \A v \in Versions : Loose(v) => Loose(v)'
  BY <1>1, <1>6 DEF Loose
<1>11. ASSUME NEW v \in Versions, Describes(stored, v)
       PROVE  Loose(v)' \/ Describes(stored', v)
  <2>1. CASE stored' = stored
    BY <1>11, <2>1
  <2>2. CASE stored' # stored
    <3>1. /\ lock = Nobody /\ stored' = now /\ Version(r) \in bare'[r]
      BY <1>4, <2>2 DEF Inv, TypeOK
    <3>2. lock # r /\ View(r) = stored
      BY <3>1, FilesTyped DEF View
    <3>3. dialect = "sqlite"
      BY <1>1, <3>2 DEF Inv, OneAtATime, Running, TypeOK
    <3>4. v = Version(r) => Loose(v)'
      BY <1>1, <3>1, <3>3 DEF Loose
    <3>5. now.rows = stored.rows /\ now.tables = stored.tables \cup {Statement(r).adds}
      BY <3>2
    <3>6. v # Version(r) => Describes(now, v)
      BY <1>1, <1>11, <3>5, StatementAdds
    <3> QED
      BY <3>1, <3>4, <3>6
  <2> QED
    BY <2>1, <2>2
<1>12. ASSUME NEW v \in Versions, lock' = r
       PROVE  Loose(v)' \/ (Pending(r)' /\ v = Version(r)') \/ Describes(draft', v)
  <2>1. Pending(r)'
    BY <1>1, <1>2 DEF Pending, Applying
  <2>2. CASE v = Version(r)
    BY <1>2, <2>1, <2>2
  <2>3. CASE v # Version(r)
    <3>1. lock = r /\ View(r) = draft
      BY <1>3, <1>12 DEF View
    <3>2. Loose(v)' \/ Describes(draft, v)
      BY <1>10, <2>3, <3>1, ViewDescribed
    <3>3. draft' = draft \/ draft' = now
      BY <1>4
    <3>4. now.rows = draft.rows /\ now.tables = draft.tables \cup {Statement(r).adds}
      BY <3>1
    <3>5. Describes(draft, v) => Describes(now, v)
      BY <1>1, <2>3, <3>4, StatementAdds
    <3> QED
      BY <3>2, <3>3, <3>5
  <2> QED
    BY <2>2, <2>3
<1>13. dialect = "postgresql" => torn' = {} /\ bare'[r] = {} /\ (pc'[r] \in Running => lock' = r)
  <2>1. SUFFICES ASSUME dialect = "postgresql"
        PROVE  torn' = {} /\ bare'[r] = {} /\ (pc'[r] \in Running => lock' = r)
    OBVIOUS
  <2>2. lock = r /\ torn = {} /\ bare[r] = {}
    BY <1>1, <2>1 DEF Inv, OneAtATime, Running
  <2> QED
    BY <1>1, <1>3, <1>4, <2>2, FilesTyped
<1> QED
  BY <1>7, <1>8, <1>9, <1>10, <1>11, <1>12, <1>13 DEF Kept

LEMMA InvInit == Init => Inv
<1> SUFFICES ASSUME Init PROVE Inv
  OBVIOUS
<1>1. TypeOK
  BY TypedInit
<1>2. /\ lock = Nobody /\ draft = stored /\ torn = {} /\ edited \subseteq stored.rows
      /\ \A r \in Runners : /\ pc[r] = "down" /\ known[r] = {} /\ bare[r] = {}
                            /\ at[r] = [file |-> 1, statement |-> 1] /\ lock # r
  BY FilesTyped DEF Init
<1>3. Transaction /\ OneAtATime
  BY <1>2 DEF Transaction, OneAtATime, Running
<1>4. ASSUME NEW r \in Runners PROVE Places(r) /\ Progressed(r)
  <2>1. Version(r) = 1 /\ ~Pending(r) /\ ~Applying(r)
    BY <1>2 DEF Version, Pending, Applying
  <2>2. \A v \in Versions : ~(v < 1)
    BY DEF Versions
  <2>3. pc[r] = "down"
    BY <1>2
  <2>4. Places(r)
    BY <1>2, <2>1, <2>3 DEF Places
  <2> QED
    BY <1>2, <2>1, <2>2, <2>4 DEF Progressed
<1>5. ASSUME NEW v \in Versions PROVE Describes(stored, v)
  <2>1. CASE \E k \in 0 .. Len(Files) :
                 stored = [tables |-> UNION {Adds(w) : w \in 1..k}, rows |-> 1..k]
    <3>1. PICK k \in 0 .. Len(Files) :
              stored = [tables |-> UNION {Adds(w) : w \in 1..k}, rows |-> 1..k]
      BY <2>1
    <3>2. 1..k \subseteq Versions
      BY FilesTyped
    <3>3. v \notin 1..k => Adds(v) \cap UNION {Adds(w) : w \in 1..k} = {}
      BY <3>2, FilesTyped
    <3> QED
      BY <3>1, <3>3 DEF Describes
  <2>2. CASE stored = [tables |-> Adds(1), rows |-> {}]
    <3>1. v # 1 => Adds(v) \cap Adds(1) = {}
      BY FilesTyped
    <3> QED
      BY <2>2, <3>1 DEF Describes
  <2> QED
    BY <2>1, <2>2 DEF Init
<1> QED
  BY <1>1, <1>2, <1>3, <1>4, <1>5 DEF Inv, Described, DraftDescribed

LEMMA InvStep == Inv /\ [Next]_vars => Inv'
<1> SUFFICES ASSUME Inv, [Next]_vars PROVE Inv'
  OBVIOUS
<1>1. TypeOK'
  BY TypedStep DEF Inv
<1>2. CASE UNCHANGED vars
  <2>1. Transaction' /\ OneAtATime' /\ Described' /\ DraftDescribed'
    BY <1>2 DEF Inv, vars, config, database, runners, Transaction, OneAtATime, Described,
                DraftDescribed, Loose, Describes, Pending, Applying, Version
  <2>2. \A r \in Runners : Places(r)' /\ Progressed(r)'
    BY <1>2 DEF Inv, vars, config, database, runners, Places, Progressed, View, Pending,
                Applying, Version
  <2> QED
    BY <1>1, <2>1, <2>2 DEF Inv
<1>3. ASSUME NEW r \in Runners, Step(r) \/ Crash(r) PROVE Inv'
  <2>1. Framed(r)
    BY <1>3, FramedStep DEF Inv
  <2>2. Raises(r) => Kept(r)
    BY EndsKeeps DEF Raises
  <2>3. Crash(r) => Kept(r)
    BY EndsKeeps DEF Crash
  <2>4. Kept(r)
    BY <1>3, <2>2, <2>3, BeginKeeps, ReadKeeps, InspectKeeps, BaselineKeeps, SkipKeeps,
       ExecuteKeeps, RecordKeeps, CommitKeeps DEF Step
  <2> QED
    BY <1>1, <2>1, <2>4, InvAnew
<1> QED
  BY <1>2, <1>3 DEF Next
----------------------------------------------------------------------------
(***************************************************************************)
(* The theorems.                                                           *)
(***************************************************************************)
LEMMA InvHolds == Spec => []Inv
<1> QED
  BY InvInit, InvStep, PTL DEF Spec

\* The database and the processes are always of their types: run_migrations
\* never goes past the statements of a file.
THEOREM MigrationsTyped == Spec => []TypeOK
<1>1. Inv => TypeOK
  BY DEF Inv
<1> QED
  BY <1>1, InvHolds, PTL

\* schema_migrations describes the schema, whatever dies, fails or runs at the
\* same time, but for what SQLite has committed by single statements.
THEOREM RowsDescribe == Spec => []RowsDescribeSchema
<1>1. Inv => RowsDescribeSchema
  BY DEF Inv, Described, Describes, RowsDescribeSchema, Whole
<1> QED
  BY <1>1, InvHolds, PTL

\* A process that came up found every migration applied and none changed.
THEOREM StartsAreMigrated == Spec => []StartedMeansMigrated
<1>1. Inv => StartedMeansMigrated
  <2> SUFFICES ASSUME Inv, NEW r \in Runners, pc[r] = "up"
               PROVE  stored.rows = Versions /\ edited = {}
    BY DEF StartedMeansMigrated
  <2>1. lock # r /\ Version(r) = Len(Files) + 1
    BY DEF Inv, Transaction, Running, Places
  <2>2. \A v \in Versions : v < Version(r)
    BY <2>1, FilesTyped
  <2>3. \A v \in Versions : v \in stored.rows /\ v \notin edited
    BY <2>1, <2>2 DEF Inv, Progressed, View
  <2> QED
    BY <2>3 DEF Inv, TypeOK, Schema
<1> QED
  BY <1>1, InvHolds, PTL

\* On PostgreSQL no runner ever leaves a migration half applied.
THEOREM PostgresIsNeverTorn == Spec => [](dialect = "postgresql" => torn = {})
<1>1. Inv => (dialect = "postgresql" => torn = {})
  BY DEF Inv, OneAtATime
<1> QED
  BY <1>1, InvHolds, PTL
=============================================================================
