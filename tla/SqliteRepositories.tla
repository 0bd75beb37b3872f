-------------------------- MODULE SqliteRepositories --------------------------
(***************************************************************************)
(* SqliteWorkerRepository and SqliteJobRepository over one connection.  A  *)
(* row is spread over two tables, so insert and update are transactions of *)
(* several statements, any of which can fail: a constraint, a value the    *)
(* database cannot hold, a full disk.  Whatever fails, the transaction is  *)
(* rolled back and the error thrown on.  The process can die anywhere.     *)
(*                                                                         *)
(* The two classes differ in their columns only and are one model: a key   *)
(* is a worker or a job.  Statements outside a transaction commit alone.   *)
(* Calls never overlap: the coordinator makes them under its mutex.        *)
(***************************************************************************)
EXTENDS FiniteSets

CONSTANTS
  Workers, Jobs,
  Values,   \* contents of a row, but for the columns below
  Tags,
  Times,    \* heartbeat times
  None      \* NULL, and no row

Keys == Workers \cup Jobs

VARIABLES
  db,        \* the database file
  tx,        \* the database as the connection sees it
  pc,        \* the next statement of the call in progress
  call,      \* its arguments
  pending,   \* tags it has still to insert
  answer     \* the last call that returned or threw

vars == <<db, tx, pc, call, pending, answer>>

\* The tables workers and jobs, the two tag tables, and a column of each.
Databases ==
  [row : [Keys -> Values \cup {None}], tag : SUBSET (Keys \X Tags),
   beat : [Workers -> Times \cup {None}], assigned : [Jobs -> Workers \cup {None}]]

\* Calls of insert and update; only an insert gives a worker its time.
Calls ==
  [op : {"insert", "update"}, key : Workers, value : Values, tags : SUBSET Tags, extra : Times]
  \cup
  [op : {"insert", "update"}, key : Jobs, value : Values, tags : SUBSET Tags,
   extra : Workers \cup {None}]

ASSUME SqliteRowsAssumption ==
  /\ Workers \cap Jobs = {}
  /\ None \notin Values \cup Times \cup Workers
  /\ None \notin Calls

Operations == {"insert", "update", "erase", "record_heartbeat"}

Answers == [op : Operations, key : Keys, ok : BOOLEAN]

TypeOK ==
  /\ db \in Databases /\ tx \in Databases
  /\ pc \in {"idle", "row", "clear", "tags"}
  /\ IF pc = "idle" THEN call = None ELSE call \in Calls
  /\ pending \in SUBSET Tags
  /\ answer \in Answers \cup {None}

\* The schema of a new database.
EmptyDatabase ==
  [row |-> [k \in Keys |-> None], tag |-> {},
   beat |-> [w \in Workers |-> None], assigned |-> [j \in Jobs |-> None]]

Init ==
  /\ db = EmptyDatabase /\ tx = EmptyDatabase
  /\ pc = "idle" /\ call = None /\ pending = {}
  /\ answer = None

Exists(d, k) == d.row[k] # None

TagsOf(d, k) == {t \in Tags : <<k, t>> \in d.tag}

------------------------------------------------------------------------------
(* Mutations: plausible mistakes that the properties below must catch. *)

\* update does not delete the tags of the row it replaces.
KeepTags(d, k) == d
\* The connection does not enforce foreign keys.
EraseWithoutForeignKeys(d, k) == [d EXCEPT !.row[k] = None]
\* Tags go with their row, but an assignment stays.
EraseWithoutSetNull(d, k) ==
  [d EXCEPT !.row[k] = None, !.tag = {p \in d.tag : p[1] # k}]
\* The values are bound to the placeholders of each other's columns.
PutMisbound(d, c) ==
  [d EXCEPT !.row[c.key] = c.extra,
            !.assigned = IF c.key \in Jobs THEN [@ EXCEPT ![c.key] = c.value] ELSE @]

------------------------------------------------------------------------------
(* Statements. *)

DeleteTags(d, k) == [d EXCEPT !.tag = {p \in d.tag : p[1] # k}]

\* DELETE with its foreign keys: CASCADE for the tags, SET NULL for the jobs.
DeleteRow(d, k) ==
  [row |-> [d.row EXCEPT ![k] = None],
   tag |-> {p \in d.tag : p[1] # k},
   beat |-> [w \in Workers |-> IF w = k THEN None ELSE d.beat[w]],
   assigned |-> [j \in Jobs |-> IF k \in {j, d.assigned[j]} THEN None ELSE d.assigned[j]]]

\* INSERT or UPDATE: an update does not write last_heartbeat_unix_ms.
PutRow(d, c) ==
  [d EXCEPT !.row[c.key] = c.value,
            !.beat = IF c.key \in Workers /\ c.op = "insert"
                       THEN [@ EXCEPT ![c.key] = c.extra] ELSE @,
            !.assigned = IF c.key \in Jobs THEN [@ EXCEPT ![c.key] = c.extra] ELSE @]

\* What the primary key and the foreign key of the table accept.
RowAccepted(d, c) ==
  /\ c.op = "insert" => ~Exists(d, c.key)
  /\ (c.key \in Jobs /\ c.extra # None) => Exists(d, c.extra)

------------------------------------------------------------------------------
(* insert and update. *)

Answer(op, k, ok) == answer' = [op |-> op, key |-> k, ok |-> ok]

\* update asks whether the row exists before it opens the transaction.
Begin(c) ==
  /\ pc = "idle"
  /\ c.op = "update" => Exists(db, c.key)
  /\ pc' = "row"
  /\ call' = c
  /\ answer' = None
  /\ UNCHANGED <<db, tx, pending>>

WriteRow ==
  /\ pc = "row"
  /\ RowAccepted(tx, call)
  /\ tx' = PutRow(tx, call)
  /\ pc' = IF call.op = "update" THEN "clear" ELSE "tags"
  /\ pending' = call.tags
  /\ UNCHANGED <<db, call, answer>>

ClearTags ==
  /\ pc = "clear"
  /\ tx' = DeleteTags(tx, call.key)
  /\ pc' = "tags"
  /\ UNCHANGED <<db, call, pending, answer>>

\* A tag the row has already violates the primary key.
InsertTag(t) ==
  /\ pc = "tags" /\ t \in pending
  /\ t \notin TagsOf(tx, call.key)
  /\ tx' = [tx EXCEPT !.tag = @ \cup {<<call.key, t>>}]
  /\ pending' = pending \ {t}
  /\ UNCHANGED <<db, pc, call, answer>>

Commit ==
  /\ pc = "tags" /\ pending = {}
  /\ db' = tx
  /\ pc' = "idle" /\ call' = None
  /\ Answer(call.op, call.key, TRUE)
  /\ UNCHANGED <<tx, pending>>

\* A statement, the commit included, fails; the catch block rolls back.
Fail ==
  /\ pc # "idle"
  /\ pc' = "idle" /\ call' = None
  /\ tx' = db /\ pending' = {}
  /\ Answer(call.op, call.key, FALSE)
  /\ UNCHANGED db

------------------------------------------------------------------------------
(* Calls of one statement, calls refused at once, and the process. *)

Erase(k) ==
  /\ pc = "idle"
  /\ Exists(db, k)
  /\ db' = DeleteRow(db, k) /\ tx' = db'
  /\ Answer("erase", k, TRUE)
  /\ UNCHANGED <<pc, call, pending>>

RecordHeartbeat(w, b) ==
  /\ pc = "idle"
  /\ Exists(db, w)
  /\ db' = [db EXCEPT !.beat[w] = b] /\ tx' = db'
  /\ Answer("record_heartbeat", w, TRUE)
  /\ UNCHANGED <<pc, call, pending>>

\* The row is unknown, the database is busy, or the single statement fails.
Refuse(op, k) ==
  /\ pc = "idle"
  /\ Answer(op, k, FALSE)
  /\ UNCHANGED <<db, tx, pc, call, pending>>

\* The process dies: the open transaction is gone when the file is opened again.
Crash ==
  /\ pc' = "idle" /\ call' = None
  /\ tx' = db /\ pending' = {}
  /\ UNCHANGED <<db, answer>>

Next ==
  \/ \E c \in Calls : Begin(c)
  \/ WriteRow
  \/ ClearTags
  \/ \E t \in Tags : InsertTag(t)
  \/ Commit
  \/ Fail
  \/ \E k \in Keys : Erase(k)
  \/ \E w \in Workers, b \in Times : RecordHeartbeat(w, b)
  \/ \E op \in Operations, k \in Keys : Refuse(op, k)
  \/ Crash

Spec == Init /\ [][Next]_vars

------------------------------------------------------------------------------
(* Properties. *)

\* Tags belong to rows that exist: an insert does not delete tags first, so a
\* tag left behind by an erased row would be adopted by the next row with its
\* identifier, or make its insert fail (ON DELETE CASCADE, PRAGMA foreign_keys).
NoOrphanTags == \A p \in db.tag : Exists(db, p[1])

\* Every assignment names a worker that exists, through updates that are rolled
\* back and erasures (the foreign key of jobs, ON DELETE SET NULL).
ReferencesHold == \A j \in Jobs : db.assigned[j] # None => Exists(db, db.assigned[j])

\* The statements of a transaction, its failures and the crashes between them
\* amount to what the repository interfaces promise.
Promise ==
  INSTANCE Repositories WITH
    row <- db.row, beat <- db.beat, assigned <- db.assigned, request <- call,
    tags <- [k \in Keys |-> TagsOf(db, k)]
ImplementsRepositories == Promise!Spec

\* What the transaction sees, at each of its statements.
TransactionInv ==
  /\ pc = "idle" => tx = db /\ pending = {}
  /\ pc # "idle" =>
    /\ call.op = "update" => Exists(db, call.key)
    /\ pc = "row" => tx = db
    /\ pc \in {"clear", "tags"} =>
         /\ RowAccepted(db, call)
         /\ \A f \in {"row", "beat", "assigned"} : tx[f] = PutRow(db, call)[f]
    /\ pc = "clear" => tx.tag = db.tag /\ pending = call.tags
    /\ pc = "tags" =>
         /\ pending \subseteq call.tags
         /\ tx.tag = {p \in db.tag : p[1] # call.key}
                       \cup {<<call.key, t>> : t \in call.tags \ pending}
=============================================================================
