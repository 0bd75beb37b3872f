---------------------------- MODULE Repositories ----------------------------
(***************************************************************************)
(* What IWorkerRepository and IJobRepository promise the coordinator: each *)
(* call takes effect as a whole or not at all, an insert never replaces a  *)
(* row, an update never creates one, and the answer tells which happened.  *)
(* When the process dies during a call nothing of it is left.              *)
(*                                                                         *)
(* A row is a value with a set of tags; a worker row also has the time of  *)
(* its last heartbeat, which update leaves alone, and a job row names the  *)
(* worker it is assigned to.  Values are opaque: they stand for the other  *)
(* columns.                                                                *)
(***************************************************************************)
EXTENDS FiniteSets

CONSTANTS
  Workers, Jobs,
  Values,   \* contents of a row, but for the columns below
  Tags,
  Times,    \* heartbeat times
  None      \* no row, no worker, no time, no call

Keys == Workers \cup Jobs

VARIABLES
  row,        \* the value of each row, None where there is none
  tags,       \* the tags of each row
  beat,       \* last_heartbeat of each worker
  assigned,   \* assigned_worker_id of each job
  request,    \* the insert or update in progress
  answer      \* how the last call ended

rows == <<row, tags, beat, assigned>>
vars == <<row, tags, beat, assigned, request, answer>>

Operations == {"insert", "update", "erase", "record_heartbeat"}

Answers == [op : Operations, key : Keys, ok : BOOLEAN]

\* Only an insert gives a worker its heartbeat time, an update ignores it.
Calls ==
  [op : {"insert", "update"}, key : Workers, value : Values, tags : SUBSET Tags, extra : Times]
  \cup
  [op : {"insert", "update"}, key : Jobs, value : Values, tags : SUBSET Tags,
   extra : Workers \cup {None}]

Init ==
  /\ row = [k \in Keys |-> None]
  /\ tags = [k \in Keys |-> {}]
  /\ beat = [w \in Workers |-> None]
  /\ assigned = [j \in Jobs |-> None]
  /\ request = None /\ answer = None

Exists(k) == row[k] # None

Answer(op, k, ok) == answer' = [op |-> op, key |-> k, ok |-> ok]

Invoke(c) ==
  /\ request = None
  /\ request' = c /\ answer' = None
  /\ UNCHANGED rows

\* insert and update write all that the call was given.
Store ==
  LET k == request.key IN
  /\ request # None
  /\ Exists(k) <=> request.op = "update"
  /\ (k \in Jobs /\ request.extra # None) => Exists(request.extra)
  /\ row' = [row EXCEPT ![k] = request.value]
  /\ tags' = [tags EXCEPT ![k] = request.tags]
  /\ beat' = IF k \in Workers /\ request.op = "insert"
               THEN [beat EXCEPT ![k] = request.extra] ELSE beat
  /\ assigned' = IF k \in Jobs THEN [assigned EXCEPT ![k] = request.extra] ELSE assigned
  /\ request' = None
  /\ Answer(request.op, k, TRUE)

\* A worker that is erased leaves no job assigned to it.
Erase(k) ==
  /\ request = None
  /\ Exists(k)
  /\ row' = [row EXCEPT ![k] = None]
  /\ tags' = [tags EXCEPT ![k] = {}]
  /\ beat' = [w \in Workers |-> IF w = k THEN None ELSE beat[w]]
  /\ assigned' = [j \in Jobs |-> IF k \in {j, assigned[j]} THEN None ELSE assigned[j]]
  /\ Answer("erase", k, TRUE)
  /\ UNCHANGED request

RecordHeartbeat(w, b) ==
  /\ request = None
  /\ Exists(w)
  /\ beat' = [beat EXCEPT ![w] = b]
  /\ Answer("record_heartbeat", w, TRUE)
  /\ UNCHANGED <<row, tags, assigned, request>>

\* The call throws.
Refuse(op, k) ==
  /\ request # None => op = request.op /\ k = request.key
  /\ request' = None
  /\ Answer(op, k, FALSE)
  /\ UNCHANGED rows

\* The process dies: the caller never learns how the call ended.
Crash == request' = None /\ UNCHANGED <<rows, answer>>

Next ==
  \/ \E c \in Calls : Invoke(c)
  \/ Store
  \/ \E k \in Keys : Erase(k)
  \/ \E w \in Workers, b \in Times : RecordHeartbeat(w, b)
  \/ \E op \in Operations, k \in Keys : Refuse(op, k)
  \/ Crash

Spec == Init /\ [][Next]_vars
=============================================================================
