----------------------------- MODULE Migrations -----------------------------
(***************************************************************************)
(* runMigrations, run by every process that is deployed: the names applied *)
(* are read once, then each missing file is run and recorded in one        *)
(* transaction.  Runners race, crash, and are started again.  A file's     *)
(* statements cannot be applied twice: CREATE TABLE waits for a rival      *)
(* transaction that creates the same table and then fails.                 *)
(***************************************************************************)
EXTENDS Integers, FiniteSets

CONSTANTS
  Runners,
  Files,    \* the number of files; they are applied in the order 1..Files
  MaxStarts \* bound on how often a runner is started

ASSUME MigrationsAssumption == Files \in Nat /\ MaxStarts \in Nat

VARIABLES
  table,    \* does schema_migrations exist?
  recorded, \* its rows
  schema,   \* [1..Files -> Nat], how often a file's statements took effect
  runner    \* [Runners -> the runner's state]

migrationsVars == <<table, recorded, schema, runner>>

\* known: the names read; file: the one being looked at.
Ready == [at |-> "idle", known |-> {}, file |-> 1, starts |-> 0]

MigrationsInit ==
  /\ table = FALSE /\ recorded = {}
  /\ schema = [f \in 1..Files |-> 0]
  /\ runner = [r \in Runners |-> Ready]

RunnerGoes(r, stage) == runner' = [runner EXCEPT ![r].at = stage]

StartRunner(r) ==
  /\ runner[r].at \in {"idle", "done", "failed"} /\ runner[r].starts < MaxStarts
  /\ runner' = [runner EXCEPT ![r] = [Ready EXCEPT !.at = "creating", !.starts = runner[r].starts + 1]]
  /\ UNCHANGED <<table, recorded, schema>>

\* CREATE TABLE IF NOT EXISTS: two at once may still collide in the catalogue.
CreateTable(r) ==
  /\ runner[r].at = "creating"
  /\ table' = TRUE
  /\ \/ RunnerGoes(r, "reading")
     \/ ~table /\ (\E q \in Runners \ {r} : runner[q].at = "creating") /\ RunnerGoes(r, "failed")
  /\ UNCHANGED <<recorded, schema>>

ReadApplied(r) ==
  /\ runner[r].at = "reading"
  /\ runner' = [runner EXCEPT ![r].at = "choosing", ![r].known = recorded]
  /\ UNCHANGED <<table, recorded, schema>>

Skips(r) == runner[r].file \in runner[r].known

Choose(r) ==
  /\ runner[r].at = "choosing"
  /\ IF runner[r].file > Files THEN RunnerGoes(r, "done")
     ELSE IF Skips(r) THEN runner' = [runner EXCEPT ![r].file = @ + 1]
     ELSE RunnerGoes(r, "running")
  /\ UNCHANGED <<table, recorded, schema>>

\* The file's statements wait while another transaction has run them, and
\* fail once they have taken effect.
Blocked(r) ==
  \E q \in Runners \ {r} : runner[q].at = "recording" /\ runner[q].file = runner[r].file

\* Mutant: the file run outside a transaction.
RunAutocommitted(r) ==
  /\ runner[r].at = "running" /\ ~Blocked(r)
  /\ schema' = [schema EXCEPT ![runner[r].file] = @ + 1]
  /\ RunnerGoes(r, "recording")
  /\ UNCHANGED <<table, recorded>>

\* A file that could run twice fails a statement later, on its name.
RunFile(r) ==
  /\ runner[r].at = "running" /\ ~Blocked(r)
  /\ IF schema[runner[r].file] = 0 THEN RunnerGoes(r, "recording") ELSE RunnerGoes(r, "failed")
  /\ UNCHANGED <<table, recorded, schema>>

\* runMigrations throws, and the process ends.
Throws(r) == RunnerGoes(r, "failed")

\* INSERT INTO schema_migrations, and COMMIT.
RecordAndCommit(r) ==
  /\ runner[r].at = "recording"
  /\ recorded' = recorded \cup {runner[r].file}
  /\ schema' = [schema EXCEPT ![runner[r].file] = @ + 1]
  /\ runner' = [runner EXCEPT ![r].at = "choosing", ![r].file = @ + 1]
  /\ UNCHANGED table

\* A statement fails: ROLLBACK.
Fail(r) ==
  /\ runner[r].at \in {"reading", "running", "recording"}
  /\ Throws(r)
  /\ UNCHANGED <<table, recorded, schema>>

\* The process dies; the server rolls its transaction back.
Crash(r) ==
  /\ runner[r].at \notin {"idle", "done", "failed"}
  /\ RunnerGoes(r, "failed")
  /\ UNCHANGED <<table, recorded, schema>>

Step(r) ==
  CreateTable(r) \/ ReadApplied(r) \/ Choose(r) \/ RunFile(r) \/ RecordAndCommit(r)

MigrationsNext == \E r \in Runners : StartRunner(r) \/ Step(r) \/ Fail(r) \/ Crash(r)

MigrationsSpec == MigrationsInit /\ [][MigrationsNext]_migrationsVars

MigrationsFairSpec == MigrationsSpec /\ \A r \in Runners : WF_migrationsVars(Step(r))

----------------------------------------------------------------------------
(* Properties *)

MigrationsTypeOK ==
  /\ table \in BOOLEAN /\ recorded \subseteq 1..Files
  /\ schema \in [1..Files -> Nat]
  /\ \A r \in Runners :
       /\ runner[r].known \subseteq recorded
       /\ runner[r].file \in 1..(Files + 1)
       /\ runner[r].starts \in 0..MaxStarts
       /\ runner[r].at \in {"reading", "choosing", "running", "recording"} => table

\* What took effect is what is recorded, file by file: a crash between the
\* two is what the transaction is for.
RecordedIsApplied ==
  \A f \in 1..Files : schema[f] = (IF f \in recorded THEN 1 ELSE 0)

\* A runner that returns has left a complete schema, also when others applied
\* some of the files behind its back.
DoneIsComplete == \A r \in Runners : runner[r].at = "done" => recorded = 1..Files

\* Whoever applies them, the files are applied once each and in their order:
\* what is recorded is a prefix of the files, which grows by one.
Applied == IF recorded = 1..Cardinality(recorded) THEN Cardinality(recorded) ELSE -1

Pass == INSTANCE OncePerFile WITH schema <- Applied

AppliedOnceInOrder == Pass!Spec

\* No runner hangs: it returns or throws, though it waits for its rivals.
RunnersEnd ==
  \A r \in Runners : runner[r].at \notin {"idle", "done", "failed"} ~>
                     runner[r].at \in {"done", "failed"}

\* runMigrations: however runners race and crash, the schema is what is
\* recorded, grows file by file, and is whole when one returns.
MigratesOnce == [](RecordedIsApplied /\ DoneIsComplete) /\ AppliedOnceInOrder
=============================================================================
