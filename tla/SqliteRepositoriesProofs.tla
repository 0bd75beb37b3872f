------------------------ MODULE SqliteRepositoriesProofs ------------------------
(***************************************************************************)
(* The SQLite repositories keep their tables consistent and implement      *)
(* Repositories, for any sets of rows, values and tags.  The inductive     *)
(* invariant is TypeOK with TransactionInv, which says what each statement *)
(* of a transaction finds; the two table invariants need TypeOK and        *)
(* TransactionInv for the commit, and nothing else.                        *)
(***************************************************************************)
EXTENDS SqliteRepositories, TLAPS

\* The statements take databases to databases, and touch the columns they name.
LEMMA PutRowFacts ==
  ASSUME NEW d \in Databases, NEW c \in Calls
  PROVE  /\ PutRow(d, c) \in Databases
         /\ PutRow(d, c).row = [d.row EXCEPT ![c.key] = c.value]
         /\ PutRow(d, c).tag = d.tag
         /\ PutRow(d, c).beat =
              IF c.key \in Workers /\ c.op = "insert"
                THEN [d.beat EXCEPT ![c.key] = c.extra] ELSE d.beat
         /\ PutRow(d, c).assigned =
              IF c.key \in Jobs THEN [d.assigned EXCEPT ![c.key] = c.extra] ELSE d.assigned
<1>1. c.key \in Keys /\ c.value \in Values  BY DEF Calls, Keys
<1>2. c.key \in Workers => c.extra \in Times
  BY SqliteRowsAssumption DEF Calls
<1>3. c.key \in Jobs => c.extra \in Workers \cup {None}
  BY SqliteRowsAssumption DEF Calls
<1> QED BY <1>1, <1>2, <1>3 DEF PutRow, Databases

\* Erasing a row, or its tags, gives a database.
LEMMA DeleteFacts ==
  ASSUME NEW d \in Databases, NEW k \in Keys
  PROVE  DeleteRow(d, k) \in Databases /\ DeleteTags(d, k) \in Databases
<1>1. {p \in d.tag : p[1] # k} \in SUBSET (Keys \X Tags)  BY DEF Databases
<1> QED BY <1>1 DEF DeleteRow, DeleteTags, Databases

\* Every reachable state is typed: rows, tags and assignments are of their
\* tables, and a call is in progress exactly while a transaction is open.
THEOREM TypeCorrect == Spec => []TypeOK
<1>1. Init => TypeOK  BY DEF Init, TypeOK, EmptyDatabase, Databases
<1>2. TypeOK /\ [Next]_vars => TypeOK'
  <2> SUFFICES ASSUME TypeOK, [Next]_vars PROVE TypeOK'  OBVIOUS
  <2>1. ASSUME NEW c \in Calls, Begin(c) PROVE TypeOK'  BY <2>1 DEF Begin, TypeOK
  <2>2. CASE WriteRow
    <3>1. call \in Calls  BY <2>2 DEF WriteRow, TypeOK
    <3>2. tx' \in Databases  BY <2>2, <3>1, PutRowFacts DEF WriteRow, TypeOK
    <3>3. pending' \in SUBSET Tags  BY <2>2, <3>1 DEF WriteRow, Calls
    <3> QED BY <2>2, <3>1, <3>2, <3>3 DEF WriteRow, TypeOK
  <2>3. CASE ClearTags
    <3>1. call \in Calls /\ call.key \in Keys  BY <2>3 DEF ClearTags, TypeOK, Calls, Keys
    <3>2. tx' \in Databases  BY <2>3, <3>1, DeleteFacts DEF ClearTags, TypeOK
    <3> QED BY <2>3, <3>1, <3>2 DEF ClearTags, TypeOK
  <2>4. ASSUME NEW t \in Tags, InsertTag(t) PROVE TypeOK'
    <3>1. call \in Calls /\ call.key \in Keys  BY <2>4 DEF InsertTag, TypeOK, Calls, Keys
    <3>2. tx' \in Databases  BY <2>4, <3>1 DEF InsertTag, TypeOK, Databases
    <3> QED BY <2>4, <3>1, <3>2 DEF InsertTag, TypeOK
  <2>5. CASE Commit
    <3>1. call \in Calls /\ call.key \in Keys /\ call.op \in Operations
      BY <2>5 DEF Commit, TypeOK, Calls, Keys, Operations
    <3> QED BY <2>5, <3>1 DEF Commit, TypeOK, Answer, Answers
  <2>6. CASE Fail
    <3>1. call \in Calls /\ call.key \in Keys /\ call.op \in Operations
      BY <2>6 DEF Fail, TypeOK, Calls, Keys, Operations
    <3> QED BY <2>6, <3>1 DEF Fail, TypeOK, Answer, Answers
  <2>7. ASSUME NEW k \in Keys, Erase(k) PROVE TypeOK'
    BY <2>7, DeleteFacts DEF Erase, TypeOK, Answer, Answers, Operations
  <2>8. ASSUME NEW w \in Workers, NEW b \in Times, RecordHeartbeat(w, b) PROVE TypeOK'
    <3>1. db' \in Databases  BY <2>8 DEF RecordHeartbeat, TypeOK, Databases
    <3> QED BY <2>8, <3>1 DEF RecordHeartbeat, TypeOK, Answer, Answers, Operations, Keys
  <2>9. ASSUME NEW op \in Operations, NEW k \in Keys, Refuse(op, k) PROVE TypeOK'
    BY <2>9 DEF Refuse, TypeOK, Answer, Answers
  <2>10. CASE Crash  BY <2>10 DEF Crash, TypeOK
  <2>11. CASE UNCHANGED vars  BY <2>11 DEF vars, TypeOK
  <2> QED BY <2>1, <2>2, <2>3, <2>4, <2>5, <2>6, <2>7, <2>8, <2>9, <2>10, <2>11 DEF Next
<1> QED BY <1>1, <1>2, PTL DEF Spec

------------------------------------------------------------------------------
(***************************************************************************)
(* An insert does not delete tags, so what the tag table holds after it is *)
(* known only because rows that do not exist have no tags; and that is     *)
(* kept at the commit only because of what the transaction sees.  Hence    *)
(* the three invariants are proved together.                               *)
(***************************************************************************)
TablesInv == NoOrphanTags /\ ReferencesHold /\ TransactionInv

\* What an open transaction would commit has no orphan tag and no reference to
\* a worker that does not exist.
LEMMA CommittedTablesAgree ==
  ASSUME TypeOK, TablesInv, pc = "tags"
  PROVE  /\ \A p \in tx.tag : Exists(tx, p[1])
         /\ \A j \in Jobs : tx.assigned[j] # None => Exists(tx, tx.assigned[j])
<1>1. call \in Calls /\ db \in Databases /\ tx \in Databases  BY DEF TypeOK
<1>2. /\ call.key \in Keys /\ call.value \in Values
      /\ call.key \in Jobs => call.extra \in Workers \cup {None}
  BY <1>1, SqliteRowsAssumption DEF Calls, Keys
<1>3. /\ tx.row = [db.row EXCEPT ![call.key] = call.value]
      /\ tx.assigned = IF call.key \in Jobs
                         THEN [db.assigned EXCEPT ![call.key] = call.extra] ELSE db.assigned
      /\ tx.tag = {p \in db.tag : p[1] # call.key}
                    \cup {<<call.key, t>> : t \in call.tags \ pending}
      /\ RowAccepted(db, call)
  BY <1>1, PutRowFacts DEF TablesInv, TransactionInv
<1>4. \A k \in Keys : Exists(db, k) \/ k = call.key => Exists(tx, k)
  BY <1>1, <1>2, <1>3, SqliteRowsAssumption DEF Exists, Databases
<1>5. \A p \in tx.tag : Exists(tx, p[1])
  <2> SUFFICES ASSUME NEW p \in tx.tag PROVE Exists(tx, p[1])  OBVIOUS
  <2>1. p[1] \in Keys  BY <1>1 DEF Databases
  <2>2. (p \in db.tag) \/ p[1] = call.key  BY <1>3
  <2> QED BY <1>4, <2>1, <2>2 DEF TablesInv, NoOrphanTags
<1>6. ASSUME NEW j \in Jobs, tx.assigned[j] # None PROVE Exists(tx, tx.assigned[j])
  <2>1. tx.assigned[j] \in Keys  BY <1>1, <1>6 DEF Databases, Keys
  <2>2. CASE j = call.key
    BY <1>1, <1>2, <1>3, <1>4, <1>6, <2>1, <2>2 DEF RowAccepted, Databases
  <2>3. CASE j # call.key
    <3>1. tx.assigned[j] = db.assigned[j]  BY <1>1, <1>3, <2>3 DEF Databases
    <3> QED BY <1>4, <1>6, <2>1, <3>1 DEF TablesInv, ReferencesHold
  <2> QED BY <2>2, <2>3
<1> QED BY <1>5, <1>6

\* The tables stay consistent and every statement of a transaction finds what
\* the statements before it left.
THEOREM TablesHold == Spec => []TablesInv
<1>1. Init => TablesInv
  BY DEF Init, TablesInv, NoOrphanTags, ReferencesHold, TransactionInv, EmptyDatabase
<1>2. TypeOK /\ TablesInv /\ [Next]_vars => TablesInv'
  <2> SUFFICES ASSUME TypeOK, TablesInv, [Next]_vars PROVE TablesInv'  OBVIOUS
  <2>a. db' = db => NoOrphanTags' /\ ReferencesHold'
    BY DEF TablesInv, NoOrphanTags, ReferencesHold, Exists
  <2>b. pc' = "idle" /\ tx' = db' /\ pending' = {} => TransactionInv'
    BY DEF TransactionInv
  <2>c. pc = "idle" => tx = db /\ pending = {}  BY DEF TablesInv, TransactionInv
  <2>1. ASSUME NEW c \in Calls, Begin(c) PROVE TablesInv'
    <3>1. TransactionInv'  BY <2>1, <2>c DEF Begin, TransactionInv, Exists
    <3> QED BY <2>1, <2>a, <3>1 DEF Begin, TablesInv
  <2>2. CASE WriteRow
    <3>1. call \in Calls /\ tx = db /\ db \in Databases
      BY <2>2 DEF WriteRow, TypeOK, TablesInv, TransactionInv
    <3>2. tx'.tag = db.tag /\ tx' = PutRow(db, call)  BY <2>2, <3>1, PutRowFacts DEF WriteRow
    <3>3. call.op = "update" \/ call.op = "insert"  BY <3>1 DEF Calls
    <3>4. call.op = "insert" => \A p \in db.tag : p[1] # call.key
      BY <2>2, <3>1 DEF WriteRow, RowAccepted, TablesInv, NoOrphanTags
    <3>5. CASE call.op = "update"
      <4>1. pc' = "clear" /\ pending' = call.tags /\ call' = call /\ db' = db
        BY <2>2, <3>5 DEF WriteRow
      <4>2. RowAccepted(db, call) /\ Exists(db, call.key)
        BY <2>2, <3>1, <3>5 DEF WriteRow, TablesInv, TransactionInv
      <4>3. TransactionInv'  BY <3>2, <4>1, <4>2 DEF TransactionInv, RowAccepted, Exists, PutRow
      <4> QED BY <2>a, <4>1, <4>3 DEF TablesInv
    <3>6. CASE call.op = "insert"
      <4>1. pc' = "tags" /\ pending' = call.tags /\ call' = call /\ db' = db
        BY <2>2, <3>6 DEF WriteRow
      <4>2. RowAccepted(db, call)  BY <2>2, <3>1 DEF WriteRow
      <4>3. tx'.tag = {p \in db.tag : p[1] # call.key}
                        \cup {<<call.key, t>> : t \in call.tags \ pending'}
        BY <3>2, <3>4, <3>6, <4>1
      <4>4. TransactionInv'
        BY <3>2, <3>6, <4>1, <4>2, <4>3 DEF TransactionInv, RowAccepted, Exists, PutRow
      <4> QED BY <2>a, <4>1, <4>4 DEF TablesInv
    <3> QED BY <3>3, <3>5, <3>6
  <2>3. CASE ClearTags
    <3>1. call' = call /\ db' = db /\ pc' = "tags" /\ pending' = call.tags
      BY <2>3 DEF ClearTags, TablesInv, TransactionInv
    <3>2. tx \in Databases /\ tx.tag = db.tag
      BY <2>3 DEF ClearTags, TypeOK, TablesInv, TransactionInv
    <3>3. tx' = [tx EXCEPT !.tag = {p \in db.tag : p[1] # call.key}]
      BY <2>3, <3>2 DEF ClearTags, DeleteTags
    <3>4. /\ tx'.tag = {p \in db.tag : p[1] # call.key}
          /\ tx'.row = tx.row /\ tx'.beat = tx.beat /\ tx'.assigned = tx.assigned
      BY <3>2, <3>3 DEF Databases
    <3>5. /\ RowAccepted(db, call) /\ (call.op = "update" => Exists(db, call.key))
          /\ \A f \in {"row", "beat", "assigned"} : tx[f] = PutRow(db, call)[f]
      BY <2>3 DEF ClearTags, TablesInv, TransactionInv
    <3>6. \A f \in {"row", "beat", "assigned"} : tx'[f] = PutRow(db, call)[f]
      BY <3>4, <3>5
    <3>7. tx'.tag = {p \in db.tag : p[1] # call.key}
                      \cup {<<call.key, t>> : t \in call.tags \ pending'}
      BY <3>1, <3>4
    <3>8. TransactionInv'
      BY <3>1, <3>5, <3>6, <3>7 DEF TransactionInv, RowAccepted, Exists, PutRow
    <3> QED BY <2>a, <3>1, <3>8 DEF TablesInv
  <2>4. ASSUME NEW t \in Tags, InsertTag(t) PROVE TablesInv'
    <3>1. /\ call' = call /\ db' = db /\ pc' = "tags" /\ pending' = pending \ {t}
          /\ pc = "tags" /\ t \in pending
      BY <2>4 DEF InsertTag
    <3>2. tx \in Databases  BY DEF TypeOK
    <3>3. tx' = [tx EXCEPT !.tag = tx.tag \cup {<<call.key, t>>}]  BY <2>4 DEF InsertTag
    <3>4. /\ tx'.tag = tx.tag \cup {<<call.key, t>>}
          /\ tx'.row = tx.row /\ tx'.beat = tx.beat /\ tx'.assigned = tx.assigned
      BY <3>2, <3>3 DEF Databases
    <3>5. /\ RowAccepted(db, call) /\ (call.op = "update" => Exists(db, call.key))
          /\ \A f \in {"row", "beat", "assigned"} : tx[f] = PutRow(db, call)[f]
          /\ pending \subseteq call.tags
          /\ tx.tag = {p \in db.tag : p[1] # call.key}
                        \cup {<<call.key, u>> : u \in call.tags \ pending}
      BY <3>1 DEF TablesInv, TransactionInv
    <3>6. \A f \in {"row", "beat", "assigned"} : tx'[f] = PutRow(db, call)[f]
      BY <3>4, <3>5
    <3>7. tx'.tag = {p \in db.tag : p[1] # call.key}
                      \cup {<<call.key, u>> : u \in call.tags \ pending'}
      BY <3>1, <3>4, <3>5
    <3>8. TransactionInv'
      BY <3>1, <3>5, <3>6, <3>7 DEF TransactionInv, RowAccepted, Exists, PutRow
    <3> QED BY <2>a, <3>1, <3>8 DEF TablesInv
  <2>5. CASE Commit
    <3>1. /\ pc = "tags" /\ db' = tx /\ tx' = tx /\ pc' = "idle" /\ pending' = {}
      BY <2>5 DEF Commit
    <3>2. NoOrphanTags' /\ ReferencesHold'
      BY <3>1, CommittedTablesAgree DEF NoOrphanTags, ReferencesHold, Exists
    <3> QED BY <2>b, <3>1, <3>2 DEF TablesInv
  <2>6. CASE Fail  BY <2>6, <2>a, <2>b DEF Fail, TablesInv
  <2>7. ASSUME NEW k \in Keys, Erase(k) PROVE TablesInv'
    <3>1. pc' = "idle" /\ tx' = db' /\ pending' = {} /\ db' = DeleteRow(db, k)
      BY <2>7, <2>c DEF Erase
    <3>2. db \in Databases  BY DEF TypeOK
    <3>3. /\ db'.row = [db.row EXCEPT ![k] = None]
          /\ db'.tag = {p \in db.tag : p[1] # k}
          /\ db'.assigned =
               [j \in Jobs |-> IF k \in {j, db.assigned[j]} THEN None ELSE db.assigned[j]]
      BY <3>1 DEF DeleteRow
    <3>4. \A n \in Keys : Exists(db, n) /\ n # k => Exists(db', n)
      BY <3>2, <3>3 DEF Exists, Databases
    <3>5. NoOrphanTags'
      <4> SUFFICES ASSUME NEW p \in db'.tag PROVE Exists(db', p[1])  BY DEF NoOrphanTags
      <4>1. p \in db.tag /\ p[1] # k /\ p[1] \in Keys  BY <3>2, <3>3 DEF Databases
      <4> QED BY <3>4, <4>1 DEF TablesInv, NoOrphanTags
    <3>6. ReferencesHold'
      <4> SUFFICES ASSUME NEW j \in Jobs, db'.assigned[j] # None
                   PROVE  Exists(db', db'.assigned[j])
        BY DEF ReferencesHold
      <4>1. db'.assigned[j] = db.assigned[j] /\ db.assigned[j] # k  BY <3>3
      <4>2. db.assigned[j] \in Keys  BY <3>2, <4>1 DEF Databases, Keys
      <4> QED BY <3>4, <4>1, <4>2 DEF TablesInv, ReferencesHold
    <3> QED BY <2>b, <3>1, <3>5, <3>6 DEF TablesInv
  <2>8. ASSUME NEW w \in Workers, NEW b \in Times, RecordHeartbeat(w, b) PROVE TablesInv'
    <3>1. pc' = "idle" /\ tx' = db' /\ pending' = {}
      BY <2>8, <2>c DEF RecordHeartbeat
    <3>2. db'.row = db.row /\ db'.tag = db.tag /\ db'.assigned = db.assigned
      BY <2>8 DEF RecordHeartbeat, TypeOK, Databases
    <3>3. NoOrphanTags' /\ ReferencesHold'
      BY <3>2 DEF TablesInv, NoOrphanTags, ReferencesHold, Exists
    <3> QED BY <2>b, <3>1, <3>3 DEF TablesInv
  <2>9. ASSUME NEW op \in Operations, NEW k \in Keys, Refuse(op, k) PROVE TablesInv'
    BY <2>9, <2>a, <2>b, <2>c DEF Refuse, TablesInv
  <2>10. CASE Crash  BY <2>10, <2>a, <2>b DEF Crash, TablesInv
  <2>11. CASE UNCHANGED vars
    BY <2>11 DEF vars, TablesInv, NoOrphanTags, ReferencesHold, TransactionInv
  <2> QED BY <2>1, <2>2, <2>3, <2>4, <2>5, <2>6, <2>7, <2>8, <2>9, <2>10, <2>11 DEF Next
<1> QED BY <1>1, <1>2, TypeCorrect, PTL DEF Spec

\* No tag is left behind by a row that was erased or never committed.
THEOREM NoTagIsOrphaned == Spec => []NoOrphanTags
BY TablesHold, PTL DEF TablesInv

\* No job is assigned to a worker that has no row.
THEOREM ReferencesAlwaysHold == Spec => []ReferencesHold
BY TablesHold, PTL DEF TablesInv

\* Each statement of a transaction sees the database the transaction began
\* with, changed by the statements before it and nothing else.
THEOREM TransactionHolds == Spec => []TransactionInv
BY TablesHold, PTL DEF TablesInv

------------------------------------------------------------------------------
(* Implementation. *)

\* What a commit makes of the tables is what the call asked for.
LEMMA CommitStores ==
  ASSUME TypeOK, TablesInv, Commit
  PROVE  Promise!Store
<1>1. /\ pc = "tags" /\ pending = {} /\ db' = tx /\ call' = None
      /\ answer' = [op |-> call.op, key |-> call.key, ok |-> TRUE]
  BY DEF Commit, Answer
<1>2. call \in Calls /\ db \in Databases /\ tx \in Databases
  BY <1>1 DEF TypeOK
<1>3. /\ call.key \in Keys /\ call.tags \in SUBSET Tags /\ call.op \in {"insert", "update"}
      /\ call # None
  BY <1>2, SqliteRowsAssumption DEF Calls, Keys
<1>4. /\ tx.row = [db.row EXCEPT ![call.key] = call.value]
      /\ tx.beat = IF call.key \in Workers /\ call.op = "insert"
                     THEN [db.beat EXCEPT ![call.key] = call.extra] ELSE db.beat
      /\ tx.assigned = IF call.key \in Jobs
                         THEN [db.assigned EXCEPT ![call.key] = call.extra] ELSE db.assigned
      /\ tx.tag = {p \in db.tag : p[1] # call.key} \cup {<<call.key, t>> : t \in call.tags}
      /\ RowAccepted(db, call)
      /\ call.op = "update" => Exists(db, call.key)
  BY <1>1, <1>2, PutRowFacts DEF TablesInv, TransactionInv
<1>5. [k \in Keys |-> TagsOf(tx, k)] =
        [[k \in Keys |-> TagsOf(db, k)] EXCEPT ![call.key] = call.tags]
  <2>1. TagsOf(tx, call.key) = call.tags  BY <1>3, <1>4 DEF TagsOf
  <2>2. \A k \in Keys \ {call.key} : TagsOf(tx, k) = TagsOf(db, k)
    BY <1>4 DEF TagsOf
  <2> QED BY <1>3, <2>1, <2>2
<1>6. Exists(db, call.key) <=> call.op = "update"
  BY <1>3, <1>4 DEF RowAccepted
<1> QED BY <1>1, <1>3, <1>4, <1>5, <1>6
  DEF Promise!Store, Promise!Exists, Promise!Answer, Exists, RowAccepted, TagsOf

\* Every behaviour of the SQLite repositories is one the interfaces allow:
\* statements change nothing a caller sees, a commit stores the whole call, a
\* failure or a crash stores none of it.
THEOREM SqliteImplementsRepositories == Spec => ImplementsRepositories
<1>1. Init => Promise!Init
  BY DEF Init, EmptyDatabase, Promise!Init, Promise!Keys, Keys, TagsOf
<1>2. TypeOK /\ TablesInv /\ [Next]_vars => [Promise!Next]_(Promise!vars)
  <2> SUFFICES ASSUME TypeOK, TablesInv, [Next]_vars
               PROVE  Promise!Next \/ UNCHANGED Promise!vars
    OBVIOUS
  <2>a. db' = db => UNCHANGED Promise!rows
    BY DEF Promise!rows, TagsOf
  <2>b. pc = "idle" => call = None  BY DEF TypeOK
  <2>1. ASSUME NEW c \in Calls, Begin(c) PROVE Promise!Next
    <3>1. Promise!Invoke(c)  BY <2>1, <2>a, <2>b DEF Begin, Promise!Invoke
    <3> QED BY <3>1 DEF Promise!Next, Promise!Calls, Calls
  <2>2. ASSUME NEW t \in Tags, WriteRow \/ ClearTags \/ InsertTag(t)
        PROVE  UNCHANGED Promise!vars
    BY <2>2, <2>a DEF WriteRow, ClearTags, InsertTag, Promise!vars, Promise!rows
  <2>3. CASE WriteRow \/ ClearTags
    BY <2>3, <2>a DEF WriteRow, ClearTags, Promise!vars, Promise!rows
  <2>4. CASE Commit  BY <2>4, CommitStores DEF Promise!Next
  <2>5. CASE Fail
    <3>1. call.op \in Operations /\ call.key \in Keys
      BY <2>5 DEF Fail, TypeOK, Calls, Operations, Keys
    <3>2. Promise!Refuse(call.op, call.key)
      BY <2>5, <2>a DEF Fail, Answer, Promise!Refuse, Promise!Answer
    <3> QED BY <3>1, <3>2 DEF Promise!Next, Promise!Operations, Promise!Keys, Operations, Keys
  <2>6. ASSUME NEW k \in Keys, Erase(k) PROVE Promise!Next
    <3>1. db' = DeleteRow(db, k) /\ Exists(db, k) /\ call = None /\ call' = call
          /\ answer' = [op |-> "erase", key |-> k, ok |-> TRUE]
      BY <2>6, <2>b DEF Erase, Answer
    <3>2. db \in Databases  BY DEF TypeOK
    <3>3. [n \in Keys |-> TagsOf(db', n)] =
            [[n \in Keys |-> TagsOf(db, n)] EXCEPT ![k] = {}]
      <4>1. db'.tag = {p \in db.tag : p[1] # k}  BY <3>1 DEF DeleteRow
      <4>2. TagsOf(db', k) = {}  BY <4>1 DEF TagsOf
      <4>3. \A n \in Keys \ {k} : TagsOf(db', n) = TagsOf(db, n)  BY <4>1 DEF TagsOf
      <4> QED BY <4>2, <4>3
    <3>4. Promise!Erase(k)
      BY <3>1, <3>3 DEF Promise!Erase, Promise!Exists, Promise!Answer, Exists, DeleteRow
    <3> QED BY <3>4 DEF Promise!Next, Promise!Keys, Keys
  <2>7. ASSUME NEW w \in Workers, NEW b \in Times, RecordHeartbeat(w, b) PROVE Promise!Next
    <3>1. /\ Exists(db, w) /\ call = None /\ call' = call
          /\ answer' = [op |-> "record_heartbeat", key |-> w, ok |-> TRUE]
      BY <2>7, <2>b DEF RecordHeartbeat, Answer
    <3>2. /\ db'.row = db.row /\ db'.tag = db.tag /\ db'.assigned = db.assigned
          /\ db'.beat = [db.beat EXCEPT ![w] = b]
      BY <2>7 DEF RecordHeartbeat, TypeOK, Databases
    <3>3. Promise!RecordHeartbeat(w, b)
      BY <3>1, <3>2
      DEF Promise!RecordHeartbeat, Promise!Exists, Promise!Answer, Exists, TagsOf
    <3> QED BY <3>3 DEF Promise!Next
  <2>8. ASSUME NEW op \in Operations, NEW k \in Keys, Refuse(op, k) PROVE Promise!Next
    <3>1. Promise!Refuse(op, k)
      BY <2>8, <2>a, <2>b DEF Refuse, Answer, Promise!Refuse, Promise!Answer
    <3> QED BY <3>1 DEF Promise!Next, Promise!Operations, Promise!Keys, Operations, Keys
  <2>9. CASE Crash
    BY <2>9, <2>a DEF Crash, Promise!Next, Promise!Crash, Promise!rows
  <2>10. CASE UNCHANGED vars
    BY <2>10, <2>a DEF vars, Promise!vars, Promise!rows
  <2> QED BY <2>1, <2>2, <2>3, <2>4, <2>5, <2>6, <2>7, <2>8, <2>9, <2>10 DEF Next
<1> QED BY <1>1, <1>2, TypeCorrect, TablesHold, PTL
     DEF Spec, ImplementsRepositories, Promise!Spec
=================================================================================
