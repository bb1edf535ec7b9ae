-------------------------- MODULE SchemaMigrations --------------------------
(* The schema history of the workbench database (scripts/workbench_schema.py, *)
(* opened by connect of scripts/workbench_db.py).  Every command opens the    *)
(* database, and opening brings it up to date in one transaction: what older  *)
(* and pre-release lines recorded under other numbers is renumbered, what     *)
(* they recorded and did not create is repaired, and the migrations that are  *)
(* not recorded yet run in order.                                             *)
(*                                                                            *)
(* A database is the set of its tables, columns and indexes, its ledger of    *)
(* recorded migrations, and the moves of rows that were made, and made again. *)
(* Column types and row contents are left out.                                *)
EXTENDS Naturals, WorkbenchSchema

CONSTANTS
    Migrating,      \* the migrations of the release that opens the database
    Line,           \* the lines of releases that left databases behind
    MaxOpenings     \* bound: how many times the database is opened

VARIABLES
    origin,         \* what is to be said of the line the database comes from
    database,       \* what is committed
    transaction,    \* what the connection that holds the writer lock sees
    upto,           \* the version it looks at next; 0: nobody holds the lock
    openings,       \* how many openings committed
    answer          \* of the last opening that ended

schemaVars == <<origin, database, transaction, upto, openings, answer>>

-----------------------------------------------------------------------------
Version == 1..Len(Migrating)
Move == {"owner", "decisions", "targets", "claims", "threshold", "details", "repositories",
         "workflows", "reviews", "models"}

-----------------------------------------------------------------------------
\* What statements do to a database.  The first error stays: it ends the opening.
Empty == [has |-> {}, ledger |-> {}, moved |-> {}, again |-> {}, error |-> "none"]
Fails(d, error) == IF d.error = "none" THEN [d EXCEPT !.error = error] ELSE d
Recorded(d) == {row[1] : row \in d.ledger}
Named(d, v) == IF v \in Recorded(d) THEN (CHOOSE row \in d.ledger : row[1] = v)[2] ELSE "not recorded"
Adds(d, objects) == [d EXCEPT !.has = @ \cup objects]
\* The repositories of past findings are those their scans have targets for.
Moves(d, moves) ==
    LET made == IF "targets" \in d.moved THEN moves ELSE moves \ {"repositories"}
    IN  [d EXCEPT !.moved = @ \cup made, !.again = @ \cup (d.moved \cap made)]
Runs(d, m) ==
    IF m.needs \subseteq d.has /\ m.creates \cap d.has = {}
    THEN Moves(Adds(d, m.creates), m.moves)
    ELSE Fails(d, "statement failed")
Record(d, v, name) ==
    IF v \in Recorded(d) THEN Fails(d, "statement failed")
    ELSE [d EXCEPT !.ledger = @ \cup {<<v, name>>}]
Forget(d, v, names) == [d EXCEPT !.ledger = @ \ ({v} \X names)]
Rename(d, v, names, name) ==
    IF Named(d, v) \in names THEN Record(Forget(d, v, names), v, name) ELSE d
Renumber(d, v, u, name) ==
    IF Named(d, v) = name THEN Record(Forget(d, v, {name}), u, name) ELSE d

-----------------------------------------------------------------------------
\* What pre-release lines recorded is given the numbers and the names of today.
Rows(d, versions) == {row \in d.ledger : row[1] \in versions}
MirrorRows == {<<29, "freeze stopped scan source digests">>, <<30, "separate deep scan publication failures">>}
Mirror(d) ==
    IF d.ledger \cap MirrorRows = {} THEN d
    ELSE IF Rows(d, 29..32) # MirrorRows THEN Fails(d, "unsupported")
    ELSE Renumber(Renumber(d, 30, 32, "separate deep scan publication failures"),
                  29, 31, "freeze stopped scan source digests")

\* A name that was recorded at v belongs at u, which must be free.
Displaced(d, v, u, name) ==
    IF Named(d, v) = name /\ u \in Recorded(d) THEN Fails(d, "unsupported")
    ELSE Renumber(d, v, u, name)

StaticProfiles == "scan execution profiles"
DynamicProfiles == "dynamic scan execution profiles"
ProfileColumns == Columns("scans", {"execution_model", "reasoning_effort"})
                  \cup Columns("workspaces", {"execution_model", "reasoning_effort"})
LegacyColumns == Columns("scans", {"legacy_execution_model", "legacy_reasoning_effort"})
                 \cup Columns("workspaces", {"legacy_execution_model", "legacy_reasoning_effort"})
\* A model column of scans is also today's: only the others tell an old line.
ProfileMarks == ProfileColumns \ Columns("scans", {"reasoning_effort"})
ProfileNames == [v \in {11, 12, 25} |->
    CASE v = 11 -> {"deep scan orchestration state", StaticProfiles}
      [] v = 12 -> {"scan continuation threads", StaticProfiles, DynamicProfiles}
      [] v = 25 -> {"persist scan model settings"}]
ProfilesMoved(d) ==
    LET renamed == [d EXCEPT !.has = (@ \ ProfileColumns) \cup LegacyColumns \cup ModelSettings]
        freed == Forget(Forget(Moves(renamed, {"models"}), 11, {StaticProfiles}), 12, {StaticProfiles, DynamicProfiles})
    IN  IF 25 \in Recorded(d) THEN freed ELSE Record(freed, 25, "persist scan model settings")
ExecutionProfiles(d) ==
    LET e == Rename(d, 25, {DynamicProfiles}, "persist scan model settings")
        history == Named(e, 11) = StaticProfiles \/ Named(e, 12) \in {StaticProfiles, DynamicProfiles}
        columns == ProfileMarks \cap e.has # {}
        supported ==
            /\ \A v \in DOMAIN ProfileNames : Named(e, v) \in ProfileNames[v] \cup {"not recorded"}
            /\ columns /\ ProfileColumns \subseteq e.has /\ LegacyColumns \cap e.has = {}
    IN  IF ~history /\ ~columns THEN e
        ELSE IF supported THEN ProfilesMoved(e) ELSE Fails(e, "unsupported")

\* A migration of another line took the number: what it shadows is made up for.
Shadowed(d, v, names, objects, moves) ==
    IF Named(d, v) \in names
    THEN Rename(Moves(Adds(d, objects), moves), v, names, Migrating[v].name) ELSE d
Shadows(d) ==
    LET d18 == Shadowed(d, 18, {"scan target summaries"}, {}, {"claims"})
        d19 == Shadowed(d18, 19, {"structured scan guidance context", "idempotent scan lifecycle requests"},
                        Migrating[19].creates, {})
        d20 == Shadowed(d19, 20, {"retain superseded scan lifecycle requests", "threat model publication receipts"},
                        PhaseProgress, {})
        d21 == Shadowed(d20, 21, {"scan progress projection and activity", "deep coordinator manifest receipts"},
                        PreflightProgress, {})
    IN  Shadowed(d21, 22, {DynamicProfiles}, Recipes, {})

FindingLine == <<"initial workbench schema", "finding management schema", "scan handoff delivery claims",
                 "finding remediation action claims", "scan target snapshot digests">>
FindingNumbers(d) ==
    LET forgot == Forget(d, 5, {FindingLine[5]})
        moved == Renumber(Renumber(Renumber(forgot, 4, 5, FindingLine[4]), 3, 4, FindingLine[3]), 2, 3, FindingLine[2])
    IN  IF Named(d, 2) # FindingLine[2] THEN d
        ELSE IF \E row \in Rows(d, 2..5) : row[2] # FindingLine[row[1]] THEN Fails(d, "unsupported")
        ELSE Record(Adds(moved, Migrating[2].creates \cup Columns("scans", {"target_snapshot_digest"})),
                    2, Migrating[2].name)

Normalized(d) ==
    LET indexed == Renumber(Mirror(d), 33, 40, "index finding identity and comparison history")
        warned == Displaced(indexed, 25, 26, "persist scan completion warnings")
        progress == Displaced(warned, 12, 20, "phase-specific scan progress")
        profiles == ExecutionProfiles(progress)
        preflight == Displaced(profiles, 13, 21, "current scan preflight state")
    IN  FindingNumbers(Shadows(preflight))

-----------------------------------------------------------------------------
\* What a recorded migration did not create is created.
DeepScansRepaired(d) ==
    LET ownerless == ~(DeepScanOwner \subseteq d.has)
        whole == Adds(d, DeepScanOwner \cup DeepScanObjects)
    IN  IF ~ownerless THEN whole
        ELSE IF Columns("workspaces", {"thread_id"}) \subseteq d.has THEN Moves(whole, {"owner"})
        ELSE Fails(d, "statement failed")
CountersRepaired(d) ==
    IF ~(Tables({"deep_scan_runs"}) \subseteq d.has) THEN Fails(d, "statement failed")
    ELSE Adds(IF FailureThreshold \subseteq d.has THEN d ELSE Moves(d, {"threshold"}),
              FailureThreshold \cup FailureStreak)
ThreadsRepaired(d) == Adds(d, Migrating[6].creates)
\* Scans keep no target that is not stored; new ones are found when the rest is done.
TargetsRepaired(d) == Adds(d, Migrating[16].creates)
TargetsWhole(d) == Migrating[16].creates \subseteq d.has
Repaired(d, v) ==
    CASE v = 11 -> DeepScansRepaired(d)
      [] v = 6 -> ThreadsRepaired(d)
      [] v = 16 -> TargetsRepaired(d)
      [] v \in {2, 12, 13, 26, 31} -> Adds(d, Migrating[v].creates)
      [] v \in {28, 32} /\ ~(Tables({"deep_scan_runs"}) \subseteq d.has) -> Fails(d, "statement failed")
      [] v \in {28, 32} /\ Tables({"deep_scan_runs"}) \subseteq d.has -> Adds(d, Migrating[v].creates)
      [] OTHER -> d
Applied(d, v) ==
    LET made == CASE v = 6 -> ThreadsRepaired(d)
                  [] v = 16 -> TargetsRepaired(d)
                  [] OTHER -> Runs(d, Migrating[v])
    IN  Record(made, v, Migrating[v].name)

-----------------------------------------------------------------------------
\* What a line of releases left behind: the migrations up to its last version, with
\* those it had of its own in place of some (one without a name was not recorded),
\* and then what its records claim and its tables lack.
LeftBy(line) ==
    LET migration(v) == IF v \in DOMAIN line.own THEN line.own[v] ELSE Migrating[v]
        versions == 1..line.last
        targets == IF line.last < 16 THEN {} ELSE {"targets"}
    IN  [has |-> (UNION {migration(v).creates : v \in versions} \cup line.extra) \ line.lacks,
         ledger |-> {row \in {<<v, migration(v).name>> : v \in versions} : row[2] # ""},
         moved |-> (UNION {migration(v).moves : v \in versions} \cup targets) \ line.unmoved,
         again |-> {}, error |-> "none"]

Idle == [work |-> Empty, applied |-> {}, backfill |-> FALSE]
SchemaInit ==
    /\ \E line \in Line :
        /\ origin = [never |-> line.never, supported |-> line.supported]
        /\ database = LeftBy(line)
    /\ transaction = Idle /\ upto = 0 /\ openings = 0 /\ answer = "none"

\* The transaction ends without a trace.
RollsBack(a) == transaction' = Idle /\ upto' = 0 /\ answer' = a /\ UNCHANGED database

\* A command opens the database and takes the writer lock; while another connection
\* holds it, it waits and tries again.
Open ==
    /\ upto = 0 /\ openings < MaxOpenings
    /\ LET d == Normalized(database)
       IN  IF d.error # "none" THEN RollsBack(d.error)
           ELSE /\ transaction' = [work |-> d, applied |-> Recorded(d), backfill |-> FALSE]
                /\ upto' = 1
                /\ UNCHANGED <<database, answer>>
    /\ UNCHANGED <<origin, openings>>

\* The next migration: one that was recorded is repaired, one that was not runs.
Migrate ==
    /\ upto \in Version
    /\ LET d == transaction.work
           recorded == upto \in transaction.applied
           e == IF recorded THEN Repaired(d, upto) ELSE Applied(d, upto)
       IN  IF e.error # "none" THEN RollsBack(e.error)
           ELSE /\ transaction' = [transaction EXCEPT
                       !.work = e,
                       !.backfill = IF upto = 16 THEN ~TargetsWhole(d) ELSE @]
                /\ upto' = upto + 1
                /\ UNCHANGED <<database, answer>>
    /\ UNCHANGED <<origin, openings>>

Commit ==
    /\ upto = Len(Migrating) + 1
    /\ LET counted == IF 27 \in transaction.applied THEN CountersRepaired(transaction.work) ELSE transaction.work
           filled == IF transaction.backfill THEN Moves(counted, {"targets"}) ELSE counted
       IN  IF filled.error # "none" THEN RollsBack(filled.error) /\ UNCHANGED openings
           ELSE /\ database' = filled /\ openings' = openings + 1
                /\ transaction' = Idle /\ upto' = 0 /\ answer' = "none"
    /\ UNCHANGED origin

\* The command is killed, or fails, while it holds the lock.
Die == upto > 0 /\ RollsBack(answer) /\ UNCHANGED <<origin, openings>>

SchemaNext == Open \/ Migrate \/ Commit \/ Die

-----------------------------------------------------------------------------
DatabaseOK(d) ==
    /\ \A row \in d.ledger : row \in Nat \X STRING
    /\ d.moved \subseteq Move /\ d.again \subseteq d.moved
    /\ d.error = "none"
SchemaTypeOK ==
    /\ origin \in [never : SUBSET Move, supported : BOOLEAN]
    /\ DatabaseOK(database) /\ DatabaseOK(transaction.work)
    /\ transaction.applied \subseteq Version /\ transaction.backfill \in BOOLEAN
    /\ upto \in 0..(Len(Migrating) + 1) /\ openings \in 0..MaxOpenings
    /\ answer \in {"none", "unsupported", "statement failed"}

\* A history of the releases is brought up to date and never gets stuck on a statement;
\* only a history that no release wrote is refused.
HistoriesAreCarriedOver ==
    /\ answer # "statement failed"
    /\ answer = "unsupported" \/ openings > 0 => (answer = "unsupported") = ~origin.supported

\* An open database has all that the migrations create and record, whichever line it
\* comes from, and its rows were moved once: not left behind and not moved over.
RowsMoveOnce ==
    openings > 0 =>
        /\ \A v \in Version : Migrating[v].creates \subseteq database.has
        /\ Version \subseteq Recorded(database)
        /\ database.moved = Move \ origin.never /\ database.again = {}

\* Opening an open database again changes nothing.
OpeningIsIdempotent == openings > 0 /\ upto > 0 => transaction.work = database

SchemaIsSound == HistoriesAreCarriedOver /\ RowsMoveOnce /\ OpeningIsIdempotent
=============================================================================
