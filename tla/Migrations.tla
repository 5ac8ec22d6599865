----------------------------- MODULE Migrations -----------------------------
(***************************************************************************)
(* The migration runner (core/db/migrate.ts): the files of migrations/, in *)
(* the order of their names, against the schema_migrations table, run by   *)
(* any number of processes at once (the owner's shell, a workflow), each   *)
(* of which may die between any two statements.                            *)
(*                                                                         *)
(* A migration is a number, its place in the order; a file's contents are  *)
(* known by their checksum, the number of times the file was edited.  The  *)
(* first creates the table itself and is idempotent.                       *)
(***************************************************************************)
EXTENDS Naturals, FiniteSets

CONSTANTS Runner,     \* processes
          Last,       \* migrations 1 .. Last
          MaxEdits    \* bound on the edits of a file

MigrationsAssumption == Last \in Nat \ {0} /\ MaxEdits \in Nat

Migration == 1 .. Last
Idle == [at |-> 0, dryRun |-> FALSE, files |-> [m \in Migration |-> 0], seen |-> {}]

VARIABLES file,      \* the checksum of each file now
          table,     \* schema_migrations exists: 0001 has run
          book,      \* its rows: [version, checksum]
          schema,    \* every application of a later migration: [version, checksum, nth]
          runner     \* each process: the migration it is at, and what it has read

vars == <<file, table, book, schema, runner>>

Versions(rows) == {r.version : r \in rows}

-----------------------------------------------------------------------------
\* A developer edits a file, applied or not.
Edit(m) ==
  /\ file[m] < MaxEdits
  /\ file' = [file EXCEPT ![m] = @ + 1]
  /\ UNCHANGED <<table, book, schema, runner>>

\* loadMigrations, then 0001 unconditionally, dry run or not.
Start(p, dryRun) ==
  /\ runner[p].at = 0
  /\ table' = TRUE
  /\ runner' = [runner EXCEPT ![p] = [at |-> 1, dryRun |-> dryRun, files |-> file,
                                      seen |-> {[version |-> 0, checksum |-> 0]}]]
  /\ UNCHANGED <<file, book, schema>>

\* The table is read once, before any migration is looked at.
ReadBook(p) ==
  /\ runner[p].at = 1 /\ 0 \in Versions(runner[p].seen)
  /\ runner' = [runner EXCEPT ![p].seen = book]
  /\ UNCHANGED <<file, table, book, schema>>

Stop(p) == runner' = [runner EXCEPT ![p] = Idle]
Advance(p) == IF runner[p].at = Last THEN Stop(p)
              ELSE runner' = [runner EXCEPT ![p].at = @ + 1]

Ready(p) == runner[p].at # 0 /\ 0 \notin Versions(runner[p].seen)
Known(p) == runner[p].at \in Versions(runner[p].seen)
Row(p) == [version |-> runner[p].at, checksum |-> runner[p].files[runner[p].at]]

\* Already applied, or pending in a dry run; an edited one ends the runner.
Skip(p) ==
  /\ Ready(p) /\ (Known(p) \/ runner[p].dryRun)
  /\ IF Known(p) /\ Row(p) \notin runner[p].seen THEN Stop(p) ELSE Advance(p)
  /\ UNCHANGED <<file, table, book, schema>>

\* Mutant: the migration commits without the record that it ran.
RecordedAfter(p) == /\ book' = book
                    /\ Advance(p)
\* The bookkeeping row: `version` is the primary key, so a second one fails.
Recorded(p) == /\ book' = book \cup {Row(p)}
               /\ Advance(p)

Applied(v) == Cardinality({s \in schema : s.version = v})

\* The first has run already; the others commit with their row, or not at all.
Apply(p) ==
  /\ Ready(p) /\ ~Known(p) /\ ~runner[p].dryRun
  /\ runner[p].at \notin Versions(book)
  /\ schema' = IF runner[p].at = 1 THEN schema
               ELSE schema \cup {[version |-> runner[p].at, checksum |-> Row(p).checksum,
                                  nth |-> Applied(runner[p].at)]}
  /\ Recorded(p)
  /\ UNCHANGED <<file, table>>

\* Another runner was first: the transaction fails and rolls back.
Refused(p) ==
  /\ Ready(p) /\ ~Known(p) /\ ~runner[p].dryRun
  /\ runner[p].at \in Versions(book)
  /\ Stop(p)
  /\ UNCHANGED <<file, table, book, schema>>

Die(p) ==
  /\ runner[p].at # 0
  /\ Stop(p)
  /\ UNCHANGED <<file, table, book, schema>>

-----------------------------------------------------------------------------
Init ==
  /\ file = [m \in Migration |-> 0] /\ table = FALSE
  /\ book = {} /\ schema = {} /\ runner = [p \in Runner |-> Idle]

Next ==
  \/ \E m \in Migration : Edit(m)
  \/ \E p \in Runner :
       \/ \E dryRun \in BOOLEAN : Start(p, dryRun)
       \/ ReadBook(p) \/ Skip(p) \/ Apply(p) \/ Refused(p) \/ Die(p)

Spec == Init /\ [][Next]_vars

-----------------------------------------------------------------------------
MigrationsTypeOK ==
  /\ file \in [Migration -> 0 .. MaxEdits] /\ table \in BOOLEAN
  /\ book \subseteq [version : Migration, checksum : 0 .. MaxEdits]
  /\ schema \subseteq [version : Migration, checksum : 0 .. MaxEdits, nth : Nat]
  /\ \A p \in Runner : runner[p].at \in 0 .. Last /\ runner[p].dryRun \in BOOLEAN

(***************************************************************************)
(* Each migration is applied once at most, by whichever runner, and the    *)
(* table says so with the contents that were applied (migrate.ts 3-7,      *)
(* 13-17), whoever dies and however the files are edited meanwhile.        *)
(***************************************************************************)
AppliedOnce ==
  /\ \A s \in schema : s.nth = 0 /\ [version |-> s.version, checksum |-> s.checksum] \in book
  /\ \A r \in book : r.version > 1 => \E s \in schema : s.version = r.version
  /\ \A r, q \in book : r.version = q.version => r = q
  /\ book # {} => table
=============================================================================
