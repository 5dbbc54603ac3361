-------------------------- MODULE EmployeeService --------------------------
(***************************************************************************)
(* The employee operations of the application: EmployeeService.cs over its *)
(* three dependencies, the Redis cache (RedisService.cs), the two Fluent   *)
(* validators and the EF Core unit of work on MySQL.                       *)
(*                                                                         *)
(* A request runs one operation in a scope of its own, so it has its own   *)
(* DbContext.  Every step that awaits Redis or MySQL is one action: other  *)
(* requests, key expiry and faults interleave between the steps.           *)
(***************************************************************************)
EXTENDS EmployeeTable, FiniteSets

CONSTANTS
  Requests,     \* the requests in flight, each reused when it was answered
  Blank,        \* the empty address; in Emails only where updates may send it
  Inputs,       \* the calls clients make
  Seeds,        \* the tables a run starts from
  MaxRetries,   \* EnableRetryOnFailure(5): repeats of a failed SaveChanges
  MaxListed,    \* how many employees MaxValueLength = 1024 bytes can hold
  Faults        \* the faults this run has

ASSUME BoundsAssumption == MaxRetries \in Nat /\ MaxListed \in Nat

ASSUME FaultsAssumption == Faults \subseteq {"lostAck", "link", "restart"}

VARIABLES
  db,       \* the Employees table
  nextId,   \* its auto-increment counter
  redis,    \* [Keys -> what is cached there], {} for an absent key
  linked,   \* RedisService: Database.IsConnected
  pc,       \* pc[r]: the step request r awaits
  call,     \* call[r]: its arguments
  ctx,      \* ctx[r]: the rows its DbContext tracks (the identity map)
  valid,    \* valid[r]: no validation rule has failed so far
  tries,    \* tries[r]: repeats of its SaveChanges so far
  hand,     \* hand[r]: the local variable "employee" (or "employees")
  answer    \* answer[r]: what the last call of r was answered

shared == <<db, nextId, redis, linked>>
own == <<pc, call, ctx, valid, tries, hand, answer>>
vars == <<shared, own>>

-----------------------------------------------------------------------------
\* Cache keys: "EmployeeId:{id}", "EmployeeEmail:{email}",
\* "EmployeeBadge:{number}" and "Employees".

AllKey == <<"all", None>>
Keys == ({"id"} \X Ids) \cup ({"email"} \X Emails)
          \cup ({"badge"} \X Numbers) \cup {AllKey}

\* The lookups an employee answers to.
FiledUnder(e) ==
  {<<"id", e.id>>, <<"email", e.row.email>>, <<"badge", e.row.number>>, AllKey}

\* Not the code: a number that is compared by a part of it.
FindByPart(T, key) ==
  {i \in Live(T) : key[1] = "badge" \/ key \in FiledUnder(EntryOf(T, i))}

Find(T, key) == {i \in Live(T) : key \in FiledUnder(EntryOf(T, i))}

\* The calls, and the fields each of them carries.
Call == [op : {"none", "get", "auth", "add", "remove", "update"}, key : Keys,
         email : Emails \cup {None}, number : Numbers \cup {None},
         leader : Ids \cup {0, None}, word : Words \cup {None}]

Sent(op, key, email, number, leader, word) ==
  [op |-> op, key |-> key, email |-> email, number |-> number,
   leader |-> leader, word |-> word]

NoCall == Sent("none", AllKey, None, None, None, None)
Lookup(key) == Sent("get", key, None, None, None, None)
Login(e, w) == Sent("auth", <<"email", e>>, None, None, None, w)
Removal(i) == Sent("remove", <<"id", i>>, None, None, None, None)
Hiring(e, n, l, w) == Sent("add", <<"email", e>>, e, n, l, w)
Change(i, e, l, w) == Sent("update", <<"id", i>>, e, None, l, w)

Calls ==
  {Lookup(key) : key \in Keys}
    \cup {Login(e, w) : e \in Emails, w \in Words}
    \cup {Removal(i) : i \in Ids}
    \cup {Hiring(e, n, l, w) : e \in Emails \ {Blank}, n \in Numbers,
                               l \in Ids \cup {0, None}, w \in Words}
    \cup {Change(i, e, l, w) : i \in Ids, e \in Emails \cup {None},
                               l \in Ids \cup {0, None},
                               w \in Words \cup {None}}

ASSUME InputsAssumption == Inputs \subseteq Calls

ASSUME SeedsAssumption == Seeds \subseteq {T \in Table : Consistent(T)}

FirstStep == [get |-> "CacheGet", auth |-> "CacheGet", add |-> "EmailRule",
              remove |-> "Invalidate", update |-> "Invalidate"]

Steps == {"idle", "EmailRule", "NumberRule", "LeaderRule", "Insert",
          "AddCacheGet", "AddReload", "CacheGet", "Read", "CacheSet",
          "Invalidate", "Load", "Delete", "Save", "Reload"}

Answer == [kind : {"none", "ok", "bad", "notfound", "error"},
           data : SUBSET Entry]
NoAnswer == [kind |-> "none", data |-> {}]

\* The ?? operator of C#.
Or(x, y) == IF x = None THEN y ELSE x

-----------------------------------------------------------------------------
Init ==
  /\ db \in Seeds
  /\ Follows(db, nextId)
  /\ redis = [k \in Keys |-> {}]
  /\ linked = TRUE
  /\ pc = [r \in Requests |-> "idle"]
  /\ call = [r \in Requests |-> NoCall]
  /\ ctx = [r \in Requests |-> EmptyTable]
  /\ valid = [r \in Requests |-> TRUE]
  /\ tries = [r \in Requests |-> 0]
  /\ hand = [r \in Requests |-> {}]
  /\ answer = [r \in Requests |-> NoAnswer]

\* The call returns; the scope ends and its DbContext tracks nothing any more.
Finish(r, kind, data) ==
  /\ pc' = [pc EXCEPT ![r] = "idle"]
  /\ call' = [call EXCEPT ![r] = NoCall]
  /\ ctx' = [ctx EXCEPT ![r] = EmptyTable]
  /\ valid' = [valid EXCEPT ![r] = TRUE]
  /\ tries' = [tries EXCEPT ![r] = 0]
  /\ hand' = [hand EXCEPT ![r] = {}]
  /\ answer' = [answer EXCEPT ![r] = [kind |-> kind, data |-> data]]

\* The call goes on to step, with T tracked and v in its local variable.
Continue(r, step, T, v) ==
  /\ pc' = [pc EXCEPT ![r] = step]
  /\ ctx' = [ctx EXCEPT ![r] = T]
  /\ hand' = [hand EXCEPT ![r] = v]
  /\ UNCHANGED <<call, valid, tries, answer>>

\* What the context of r tracks after a query returned row i: a row it tracks
\* already stays as it is, whatever the database says now.
Tracking(r, i) ==
  [ctx[r] EXCEPT ![i] = IF @ = NoRow THEN db[i] ELSE @]

\* RedisService: every operation first asks IsConnected and does nothing, with
\* no error, when the link is down.
Cached(key) == IF linked THEN redis[key] ELSE {}
CachePut(key, v) ==
  redis' = IF linked THEN [redis EXCEPT ![key] = v] ELSE redis

\* Json.NET and MaxValueLength let the value through.
Storable(r) ==
  /\ Cardinality(hand[r]) <= MaxListed
  /\ \A e \in hand[r] : ~Endless(ctx[r], e.id)

-----------------------------------------------------------------------------
\* AddAsync takes leader 0 for "no leader".
Normalised(c) ==
  IF c.op = "add" /\ c.leader = 0
  THEN Sent("add", c.key, c.email, c.number, None, c.word) ELSE c

\* A call arrives.  formed says whether its fields satisfy the rules on format
\* and length, which the two validators check besides the ones modelled.
Receive(r) ==
  /\ pc[r] = "idle"
  /\ \E c \in Inputs, formed \in BOOLEAN :
       /\ formed \/ c.op \in {"add", "update"}
       /\ pc' = [pc EXCEPT ![r] = FirstStep[c.op]]
       /\ call' = [call EXCEPT ![r] = Normalised(c)]
       /\ valid' = [valid EXCEPT ![r] = formed]
       /\ answer' = [answer EXCEPT ![r] = NoAnswer]
  /\ UNCHANGED <<shared, ctx, tries, hand>>

\* Validation.  All rules run, each with a query of its own; after the last one
\* the call goes on or is answered with the list of errors.
Judge(r, ok, T, next) ==
  /\ pc' = [pc EXCEPT ![r] = next]
  /\ valid' = [valid EXCEPT ![r] = @ /\ ok]
  /\ ctx' = [ctx EXCEPT ![r] = T]
  /\ UNCHANGED <<call, tries, hand, answer>>

Verdict(r, ok, T, next) ==
  \/ valid[r] /\ ok /\ Judge(r, ok, T, next)
  \/ ~(valid[r] /\ ok) /\ Finish(r, "bad", {})

\* Not the code: the check left out of the validator of updates.
EmailFreeIfAdding(r) ==
  \/ call[r].op = "update"
  \/ Find(db, <<"email", call[r].email>>) = {}

EmailFree(r) ==
  \/ call[r].email \in {None, Blank}
  \/ Find(db, <<"email", call[r].email>>) = {}

EmailRule(r) ==
  /\ pc[r] = "EmailRule"
  /\ \/ call[r].op = "add" /\ Judge(r, EmailFree(r), ctx[r], "NumberRule")
     \/ call[r].op = "update" /\ Verdict(r, EmailFree(r), ctx[r], "Load")
  /\ UNCHANGED shared

NumberFree(r) == Find(db, <<"badge", call[r].number>>) = {}

NumberRule(r) ==
  /\ pc[r] = "NumberRule"
  /\ Judge(r, NumberFree(r), ctx[r], "LeaderRule")
  /\ UNCHANGED shared

LeaderThere(r) == call[r].leader \in Live(db) \cup {0, None}

LeaderRule(r) ==
  /\ pc[r] = "LeaderRule"
  /\ LET T == IF call[r].leader \in Live(db)
              THEN Tracking(r, call[r].leader) ELSE ctx[r]
     IN \/ call[r].op = "add" /\ Verdict(r, LeaderThere(r), T, "Insert")
        \/ call[r].op = "update" /\ Judge(r, LeaderThere(r), T, "EmailRule")
  /\ UNCHANGED shared

-----------------------------------------------------------------------------
\* SaveChanges.  The execution strategy repeats it after a transient failure,
\* also when the statement had been committed and only its answer was lost.
\* Any other failure, and running out of repeats, ends the call (see Abort).

Unacknowledged(r) ==
  /\ "lostAck" \in Faults
  /\ \/ /\ tries[r] < MaxRetries
        /\ tries' = [tries EXCEPT ![r] = @ + 1]
        /\ UNCHANGED <<pc, call, ctx, valid, hand, answer>>
     \/ tries[r] >= MaxRetries /\ Finish(r, "error", {})

\* Not the code: one repeat too many.
RetryOnceMore(r) ==
  /\ pc[r] \in {"Insert", "Delete", "Save"}
  /\ tries[r] <= MaxRetries
  /\ tries' = [tries EXCEPT ![r] = @ + 1]
  /\ UNCHANGED <<shared, pc, call, ctx, valid, hand, answer>>

\* A transient failure before anything was committed.
Retry(r) ==
  /\ pc[r] \in {"Insert", "Delete", "Save"}
  /\ tries[r] < MaxRetries
  /\ tries' = [tries EXCEPT ![r] = @ + 1]
  /\ UNCHANGED <<shared, pc, call, ctx, valid, hand, answer>>

\* Not the code: Ids chosen by the application, the lowest one that is free.
LowestFreeId ==
  CHOOSE i \in 1 .. MaxId + 1 :
    /\ i \notin Live(db)
    /\ \A j \in 1 .. i - 1 : j \in Live(db)

\* AddAsync: Employees.AddAsync + Complete, one INSERT under a fresh Id.
NewId == nextId

NewRow(c) ==
  [email |-> c.email, number |-> c.number, leader |-> c.leader,
   password |-> Seal(c.word)]

InsertedTable(r) == [db EXCEPT ![NewId] = NewRow(call[r])]

\* A counter that has run out (of the column's int, here of MaxId) makes MySQL
\* try its last value again: a duplicate key.
InsertRejected(r) ==
  /\ pc[r] = "Insert"
  /\ NewId > MaxId \/ ~Consistent(InsertedTable(r))
  /\ Finish(r, "error", {})
  /\ UNCHANGED shared

Insert(r) ==
  /\ pc[r] = "Insert"
  /\ NewId <= MaxId
  /\ Consistent(InsertedTable(r))
  /\ db' = InsertedTable(r)
  /\ nextId' = NewId + 1
  /\ \/ Continue(r, "AddCacheGet", [ctx[r] EXCEPT ![NewId] = NewRow(call[r])],
                 {})
     \/ Unacknowledged(r)
  /\ UNCHANGED <<redis, linked>>

\* Afterwards AddAsync asks the cache for the address it has just added, and
\* refreshes the key only when it is there; on a miss its reply has no data.
AddCacheGet(r) ==
  /\ pc[r] = "AddCacheGet"
  /\ LET v == Cached(call[r].key)
     IN \/ v = {} /\ Finish(r, "ok", {})
        \/ v # {} /\ Continue(r, "AddReload", ctx[r], {})
  /\ UNCHANGED shared

AddReload(r) ==
  /\ pc[r] = "AddReload"
  /\ \/ /\ Find(db, call[r].key) = {}
        /\ Continue(r, "CacheSet", ctx[r], {})
     \/ \E i \in Find(db, call[r].key) :
          Continue(r, "CacheSet", Tracking(r, i), {EntryOf(Tracking(r, i), i)})
  /\ UNCHANGED shared

-----------------------------------------------------------------------------
\* The lookups (GetWithIdAsync, GetWithEmailAsync, GetWithBadgeNumberAsync,
\* GetAllAsync) and AuthenticateEmployeeAsync: the cache first, then the table.

Compare(r, e) ==
  LET matches == e.row.password = Seal(call[r].word)
  IN \/ matches /\ Finish(r, "ok", {e})
     \/ ~matches /\ Finish(r, "bad", {})

CacheGet(r) ==
  /\ pc[r] = "CacheGet"
  /\ LET v == Cached(call[r].key)
     IN \/ v = {} /\ Continue(r, "Read", ctx[r], {})
        \/ v # {} /\ call[r].op = "get" /\ Finish(r, "ok", v)
        \/ call[r].op = "auth" /\ \E e \in v : Compare(r, e)
  /\ UNCHANGED shared

NotFound(op, key) ==
  IF op = "auth" THEN "bad" ELSE IF key = AllKey THEN "ok" ELSE "notfound"

ReadNone(r) ==
  /\ pc[r] = "Read"
  /\ Find(db, call[r].key) = {}
  /\ Finish(r, NotFound(call[r].op, call[r].key), {})
  /\ UNCHANGED shared

\* FirstOrDefault without an order: any of the matching rows.
ReadOne(r) ==
  /\ pc[r] = "Read"
  /\ call[r].key # AllKey
  /\ \E i \in Find(db, call[r].key) :
       LET T == Tracking(r, i)
       IN \/ call[r].op = "get"
             /\ Continue(r, "CacheSet", T, {EntryOf(T, i)})
          \/ call[r].op = "auth" /\ Compare(r, EntryOf(T, i))
  /\ UNCHANGED shared

ReadAll(r) ==
  /\ pc[r] = "Read"
  /\ call[r].key = AllKey
  /\ Live(db) # {}
  /\ Continue(r, "CacheSet", db, Entries(db))
  /\ UNCHANGED shared

\* The last step of a lookup, and of an AddAsync that found its key cached.
\* IsConnected is asked before the value is serialized.
CacheSet(r) ==
  /\ pc[r] = "CacheSet"
  /\ \/ /\ Storable(r) \/ ~linked
        /\ CachePut(call[r].key, hand[r])
        /\ Finish(r, "ok", hand[r])
     \/ /\ linked /\ ~Storable(r)
        /\ redis' = redis
        /\ Finish(r, "error", {})
  /\ UNCHANGED <<db, nextId, linked>>

-----------------------------------------------------------------------------
\* Not the code: an update that leaves its key alone.
InvalidateRemoved(r) ==
  /\ pc[r] = "Invalidate"
  /\ \/ /\ call[r].op = "remove"
        /\ CachePut(call[r].key, {})
        /\ Continue(r, "Load", ctx[r], {})
     \/ /\ call[r].op = "update"
        /\ redis' = redis
        /\ Continue(r, "LeaderRule", ctx[r], {})
  /\ UNCHANGED <<db, nextId, linked>>

\* RemoveWithIdAsync and UpdateAsync begin alike: the EmployeeId key goes first.
Invalidate(r) ==
  /\ pc[r] = "Invalidate"
  /\ CachePut(call[r].key, {})
  /\ \/ call[r].op = "remove" /\ Continue(r, "Load", ctx[r], {})
     \/ call[r].op = "update" /\ Continue(r, "LeaderRule", ctx[r], {})
  /\ UNCHANGED <<db, nextId, linked>>

\* Not the code: an update without a leader takes the leader away.
MergeAbsent(c, row) ==
  [row EXCEPT
     !.email = Or(c.email, @),
     !.password = IF c.word = None THEN @ ELSE Plain(c.word),
     !.leader = IF c.leader = 0 THEN None ELSE c.leader]

\* What UpdateAsync assigns.  The password is stored as it came; leader 0 means
\* "no leader", an absent field keeps its value.
Merge(c, row) ==
  [row EXCEPT
     !.email = Or(c.email, @),
     !.password = IF c.word = None THEN @ ELSE Plain(c.word),
     !.leader = IF c.leader = 0 THEN None ELSE Or(c.leader, @)]

\* Not the code: a removal that does not look whether the row was found.
LoadNoneOnUpdate(r) ==
  /\ pc[r] = "Load"
  /\ call[r].op = "update"
  /\ Find(db, call[r].key) = {}
  /\ Finish(r, "bad", {})
  /\ UNCHANGED shared

LoadNone(r) ==
  /\ pc[r] = "Load"
  /\ Find(db, call[r].key) = {}
  /\ Finish(r, IF call[r].op = "remove" THEN "notfound" ELSE "bad", {})
  /\ UNCHANGED shared

LoadForDelete(r) ==
  /\ pc[r] = "Load"
  /\ call[r].op = "remove"
  /\ \E i \in Find(db, call[r].key) :
       Continue(r, "Delete", Tracking(r, i), {EntryOf(Tracking(r, i), i)})
  /\ UNCHANGED shared

LoadForSave(r) ==
  /\ pc[r] = "Load"
  /\ call[r].op = "update"
  /\ \E i \in Find(db, call[r].key) :
       LET T == [Tracking(r, i) EXCEPT ![i] = Merge(call[r], @)]
       IN Continue(r, "Save", T, {EntryOf(T, i)})
  /\ UNCHANGED shared

\* Not the code: a DELETE that affects no row is taken for a success.
DeleteMissedOk(r) ==
  /\ pc[r] = "Delete"
  /\ \E e \in hand[r] : db[e.id] = NoRow
  /\ Finish(r, "ok", hand[r])
  /\ UNCHANGED shared

\* DELETE of the loaded row and, by the foreign key, of those below it.  No row
\* affected is a concurrency exception.
DeleteMissed(r) ==
  /\ pc[r] = "Delete"
  /\ \E e \in hand[r] : db[e.id] = NoRow
  /\ Finish(r, "error", {})
  /\ UNCHANGED shared

Delete(r) ==
  /\ pc[r] = "Delete"
  /\ \E e \in hand[r] : db[e.id] # NoRow /\ db' = DeleteRow(db, e.id)
  /\ Finish(r, "ok", hand[r]) \/ Unacknowledged(r)
  /\ UNCHANGED <<nextId, redis, linked>>

\* UPDATE of all columns of the loaded row (EntityState.Modified).  When the new
\* leader is tracked and leads itself, EF Core's one-to-one fix-up may clear its
\* LeaderId in the same SaveChanges; both outcomes are allowed for.
Released(r, e) ==
  {j \in Live(ctx[r]) \ {e.id} : ctx[r][j].leader = j /\ e.row.leader = j}

SavedTable(e, freed) ==
  [j \in Ids |->
     IF j = e.id THEN e.row
     ELSE IF j \in freed THEN [db[j] EXCEPT !.leader = None] ELSE db[j]]

SaveMissed(r) ==
  /\ pc[r] = "Save"
  /\ \E e \in hand[r] : \E freed \in SUBSET Released(r, e) :
       ~(freed \cup {e.id} \subseteq Live(db))
  /\ Finish(r, "error", {})
  /\ UNCHANGED shared

SaveRejected(r) ==
  /\ pc[r] = "Save"
  /\ \E e \in hand[r] : \E freed \in SUBSET Released(r, e) :
       /\ freed \cup {e.id} \subseteq Live(db)
       /\ ~Consistent(SavedTable(e, freed))
  /\ Finish(r, "error", {})
  /\ UNCHANGED shared

\* Not the code: an UPDATE that inserts the row when it is gone.
SaveOrInsert(r) ==
  /\ pc[r] = "Save"
  /\ \E e \in hand[r] : \E freed \in SUBSET Released(r, e) :
       /\ freed \subseteq Live(db)
       /\ Consistent(SavedTable(e, freed))
       /\ db' = SavedTable(e, freed)
  /\ Continue(r, "Reload", ctx[r], hand[r])
  /\ UNCHANGED <<nextId, redis, linked>>

Save(r) ==
  /\ pc[r] = "Save"
  /\ \E e \in hand[r] : \E freed \in SUBSET Released(r, e) :
       /\ freed \cup {e.id} \subseteq Live(db)
       /\ Consistent(SavedTable(e, freed))
       /\ db' = SavedTable(e, freed)
  /\ \/ Continue(r, "Reload", ctx[r], hand[r])
     \/ Unacknowledged(r)
  /\ UNCHANGED <<nextId, redis, linked>>

\* UpdateAsync reads the row again; it gets its own tracked instance, or null
\* when another request has removed the row meanwhile.
Reload(r) ==
  /\ pc[r] = "Reload"
  /\ \/ Find(db, call[r].key) = {} /\ Finish(r, "ok", {})
     \/ Find(db, call[r].key) # {} /\ Finish(r, "ok", hand[r])
  /\ UNCHANGED shared

\* Any awaited step may throw (a Redis timeout, a failure that is not transient,
\* no repeats left): CustomErrorHandlingMiddleware answers 500.
Abort(r) ==
  /\ pc[r] # "idle"
  /\ Finish(r, "error", {})
  /\ UNCHANGED shared

-----------------------------------------------------------------------------
\* The environment.

\* Not the code: the list of all employees cached without an expiry.
ExpireEmployee(key) ==
  /\ key # AllKey
  /\ redis[key] # {}
  /\ redis' = [redis EXCEPT ![key] = {}]
  /\ UNCHANGED <<db, nextId, linked, own>>

\* RedisService.Set gives every key two minutes.
Expire(key) ==
  /\ redis[key] # {}
  /\ redis' = [redis EXCEPT ![key] = {}]
  /\ UNCHANGED <<db, nextId, linked, own>>

\* The connection to Redis is lost or comes back.
Relink ==
  /\ "link" \in Faults
  /\ linked' = ~linked
  /\ UNCHANGED <<db, nextId, redis, own>>

\* MySQL 5.7 restarts and forgets the Ids that were removed at the top.
RestartDb ==
  /\ "restart" \in Faults
  /\ Follows(db, nextId')
  /\ nextId' # nextId
  /\ UNCHANGED <<db, redis, linked, own>>

Work(r) ==
  \/ EmailRule(r) \/ NumberRule(r) \/ LeaderRule(r)
  \/ InsertRejected(r) \/ Insert(r) \/ AddCacheGet(r) \/ AddReload(r)
  \/ CacheGet(r) \/ ReadNone(r) \/ ReadOne(r) \/ ReadAll(r) \/ CacheSet(r)
  \/ Invalidate(r) \/ LoadNone(r) \/ LoadForDelete(r) \/ LoadForSave(r)
  \/ DeleteMissed(r) \/ Delete(r)
  \/ SaveMissed(r) \/ SaveRejected(r) \/ Save(r) \/ Reload(r)
  \/ Retry(r)

Next ==
  \/ \E r \in Requests : Receive(r) \/ Work(r) \/ Abort(r)
  \/ \E key \in Keys : Expire(key)
  \/ Relink
  \/ RestartDb

Spec == Init /\ [][Next]_vars

\* What a call awaits completes (or throws: Abort), by an answer or by a timeout
\* (CommandTimeout(10), the timeouts of StackExchange.Redis), and a key lives two
\* minutes at most.  Nothing obliges a client to call or a fault to happen.
FairSpec ==
  /\ Spec
  /\ \A r \in Requests : WF_vars(Work(r))
  /\ \A key \in Keys : WF_vars(Expire(key))

-----------------------------------------------------------------------------
(***************************************************************************)
(* Properties.                                                             *)
(***************************************************************************)

\* Every variable has its type.
TypeOK ==
  /\ db \in Table
  /\ nextId \in 1 .. MaxId + 1
  /\ redis \in [Keys -> SUBSET Entry]
  /\ linked \in BOOLEAN
  /\ pc \in [Requests -> Steps]
  /\ call \in [Requests -> Call]
  /\ ctx \in [Requests -> Table]
  /\ valid \in [Requests -> BOOLEAN]
  /\ tries \in [Requests -> 0 .. MaxRetries]
  /\ hand \in [Requests -> SUBSET Entry]
  /\ answer \in [Requests -> Answer]

\* No step of any operation leaves the table with a leader that is not in it or
\* with two followers of one leader; the cascade of a removal included.
Referential == Consistent(db)

\* Everywhere an employee can be seen: the table, the cache, the context and the
\* variables of a running call, the last answer.
OnShow(r) == Entries(ctx[r]) \cup hand[r] \cup answer[r].data
Sightings ==
  Entries(db) \cup (UNION {redis[k] : k \in Keys})
    \cup (UNION {OnShow(r) : r \in Requests})

\* An Id is one person for ever: whatever two places show under one Id, they show
\* the same employee number (no operation changes it).  So a stale copy may be an
\* old version of an employee, never somebody else.
OneEmployeePerId ==
  \A s, t \in Sightings : s.id = t.id => s.row.number = t.row.number

\* An Id without a row gets one only as the fresh Id of an INSERT: no retry and
\* no full-row UPDATE from a stale context brings a removed employee back, and no
\* step changes the employee number of a row.
IdentityKept ==
  [][\A i \in Ids : db'[i] # NoRow =>
       \/ db[i] # NoRow /\ db'[i].number = db[i].number
       \/ db[i] = NoRow /\ i = nextId /\ nextId' = i + 1]_vars

\* No two rows have one address (other than the empty one): what the comments at
\* UniqueEmailAttribute promise for the table.
UniqueEmails ==
  \A i, j \in Live(db) :
    db[i].email = db[j].email /\ db[i].email # Blank => i = j

\* No two rows have one employee number: the requirement of the README and of the
\* comments at UniqueEmployeeNumber.
UniqueNumbers ==
  \A i, j \in Live(db) : db[i].number = db[j].number => i = j

\* Where calls come one at a time and no acknowledgement is lost, the validators
\* keep addresses and numbers apart although the database does not.
SerialUniqueness == UniqueEmails /\ UniqueNumbers

\* Where calls come one at a time and Redis is reachable, what EmployeeId:{i}
\* holds is the row itself, or a row that went by cascade with its leader: only
\* the removed leader's own key is dropped.
IdKeyFresh ==
  \A i \in Ids : \A e \in redis[<<"id", i>>] :
    \/ e \in Entries(db)
    \/ db[i] = NoRow /\ e.row.leader # None /\ db[e.row.leader] = NoRow

\* What a successful answer tells its client, at the moment it is given: a lookup
\* by Id or number names the employee asked for, a login shows an employee whose
\* sealed password is the one typed, after a removal the Id has no row.
AnswerFits(c, data, T) ==
  /\ c.op = "get" /\ c.key \notin {"email"} \X Emails =>
       \A e \in data : c.key \in FiledUnder(e)
  /\ c.op = "auth" =>
       \E e \in data : data = {e} /\ e.row.password = Seal(c.word)
  /\ c.op = "remove" =>
       \A e \in data : <<"id", e.id>> = c.key /\ T[e.id] = NoRow

AnswersFit ==
  [][\A r \in Requests :
       pc[r] # "idle" /\ pc'[r] = "idle" /\ answer'[r].kind = "ok" =>
         AnswerFits(call[r], answer'[r].data, db')]_vars

\* Where calls come one at a time: a successful update is in the table as it was
\* answered, with every field that was sent; a successful removal left no row
\* below the removed one; a successful addition is there under its address.
EffectStands(c, data, T) ==
  /\ c.op = "update" => \E e \in data : e \in Entries(T) /\ Merge(c, e.row) = e.row
  /\ c.op = "remove" => \A i \in Live(T) : \A e \in data : T[i].leader # e.id
  /\ c.op = "add" => \E i \in Live(T) :
       T[i].email = c.email /\ T[i].number = c.number /\ T[i].leader = c.leader

EffectsStand ==
  [][\A r \in Requests :
       pc[r] # "idle" /\ pc'[r] = "idle" /\ answer'[r].kind = "ok" =>
         EffectStands(call[r], answer'[r].data, db')]_vars

\* Every stored password is sealed: the requirement of the README.
PasswordsSealed == \A i \in Live(db) : db[i].password.sealed

\* Every call is answered.
Answered == \A r \in Requests : pc[r] # "idle" ~> pc[r] = "idle"

\* What is cached is what the table says: each key holds nothing, or current rows
\* that are filed under it, and the list of all employees is complete.
CacheAgrees ==
  \A k \in Keys :
    /\ \A e \in redis[k] : e \in Entries(db) /\ k \in FiledUnder(e)
    /\ k = AllKey /\ redis[k] # {} => redis[k] = Entries(db)

\* Once the table stops changing, the cache comes to agree with it for good,
\* whatever was cached or under way before and whatever is looked up after.
EventuallyAgrees == <>[][UNCHANGED db]_vars => <>[]CacheAgrees

=============================================================================
