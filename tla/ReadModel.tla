----------------------------- MODULE ReadModel -----------------------------
(***************************************************************************)
(* The dashboard's read model (readmodel/publish.ts, readmodel/cli.ts and  *)
(* its schema, the publish step of sync/run.ts): a second database whose   *)
(* contents are replaced, whole, from the main one at the end of a sync,   *)
(* or by the owner's `npm run readmodel -- publish`, which takes no lock.  *)
(*                                                                         *)
(* Every transaction that commits in the main database is counted, and the *)
(* clock is that count; what a table holds is known by the count at which  *)
(* its SELECT read it.  Publishers build table after table while others    *)
(* commit, and may die, or have the batch fail, at any point.              *)
(***************************************************************************)
EXTENDS Naturals

CONSTANTS Publisher,   \* processes that publish
          Last,        \* the tables 1 .. Last of buildReadModel, in order
          MaxCommits   \* bound on the transactions of the main database

ReadModelAssumption == Last \in Nat \ {0} /\ MaxCommits \in Nat

Table == 1 .. Last

VARIABLES commits,      \* transactions of the main database so far
          migrated,     \* the read model has the schema this program expects
          published,    \* rm_meta: published_at, none before the first publish
          rows,         \* each table of the read model: how old its rows are
          publisher     \* each process: the table it reads next, `now`, the model

vars == <<commits, migrated, published, rows, publisher>>

Never == MaxCommits + 1
NoRows == [t \in Table |-> 0]
Idle == [next |-> 0, now |-> 0, model |-> NoRows]

-----------------------------------------------------------------------------
Commit ==
  /\ commits < MaxCommits
  /\ commits' = commits + 1
  /\ UNCHANGED <<migrated, published, rows, publisher>>

\* readmodel -- migrate: tables that exist already keep their rows.
Migrate ==
  /\ ~migrated
  /\ migrated' = TRUE
  /\ UNCHANGED <<commits, published, rows, publisher>>

\* The run takes its time when it starts (syncBody), the owner's command now.
Start(p) ==
  /\ publisher[p].next = 0
  /\ publisher' = [publisher EXCEPT ![p] = [next |-> 1, now |-> commits, model |-> NoRows]]
  /\ UNCHANGED <<commits, migrated, published, rows>>

\* publishReadModel refuses a read model whose schema is not in place.
Refuse(p) ==
  /\ publisher[p].next = 1 /\ ~migrated
  /\ publisher' = [publisher EXCEPT ![p] = Idle]
  /\ UNCHANGED <<commits, migrated, published, rows>>

\* buildReadModel: one SELECT after another.
Select(p) ==
  /\ publisher[p].next \in Table /\ migrated
  /\ LET b == publisher[p]
         read == [b.model EXCEPT ![b.next] = commits]
     IN publisher' = [publisher EXCEPT ![p] = [next |-> b.next + 1, now |-> b.now,
                                               model |-> read]]
  /\ UNCHANGED <<commits, migrated, published, rows>>

\* Mutant: the time of publication is taken when the batch is sent.
StampAtTheEnd(p) == commits
Stamp(p) == publisher[p].now

\* publishStatements, in one batch: the rows of every table and the time.
Publish(p) ==
  /\ publisher[p].next = Last + 1
  /\ rows' = publisher[p].model
  /\ published' = Stamp(p)
  /\ publisher' = [publisher EXCEPT ![p] = Idle]
  /\ UNCHANGED <<commits, migrated>>

\* A read fails, the batch does, or the process dies: the last good copy stays.
Fail(p) ==
  /\ publisher[p].next # 0
  /\ publisher' = [publisher EXCEPT ![p] = Idle]
  /\ UNCHANGED <<commits, migrated, published, rows>>

Init ==
  /\ commits = 0 /\ migrated = FALSE /\ published = Never /\ rows = NoRows
  /\ publisher = [p \in Publisher |-> Idle]

Next ==
  \/ Commit \/ Migrate
  \/ \E p \in Publisher : Start(p) \/ Refuse(p) \/ Select(p) \/ Publish(p) \/ Fail(p)

Spec == Init /\ [][Next]_vars

-----------------------------------------------------------------------------
ReadModelTypeOK ==
  /\ commits \in 0 .. MaxCommits /\ migrated \in BOOLEAN
  /\ published \in 0 .. Never /\ rows \in [Table -> 0 .. MaxCommits]
  /\ publisher \in [Publisher -> [next : 0 .. Last + 1, now : 0 .. MaxCommits,
                                  model : [Table -> 0 .. MaxCommits]]]

(***************************************************************************)
(* The dashboard never claims to be fresher than it is (publish.ts 149-189,*)
(* D-65): whatever had been committed at published_at is in every table,   *)
(* though the tables are read at different times, two publishers may       *)
(* overlap and either may be overtaken; a table read later is never older. *)
(***************************************************************************)
NoFresherThanItSays ==
  /\ published # Never => migrated /\ \A t \in Table : rows[t] >= published
  /\ \A t, u \in Table : t <= u => rows[t] <= rows[u]
=============================================================================
