----------------------- MODULE EmployeeAnswers_proofs -----------------------
(***************************************************************************)
(* Proof that a successful answer fits its call, under every fault.        *)
(*                                                                         *)
(* What a lookup answers comes from a cache key, or from a row on its way  *)
(* into that key. A key is filled by lookups and by additions; that the    *)
(* entries under EmployeeId and EmployeeBadge answer to their key is due   *)
(* to a lookup's context, which tracks nothing before its one query.       *)
(***************************************************************************)
EXTENDS EmployeeService_proofs

\* The operations that come by each step.
AtStep(p, op) ==
  /\ p \in {"NumberRule", "Insert", "AddCacheGet", "AddReload"} => op = "add"
  /\ p \in {"EmailRule", "LeaderRule"} => op \in {"add", "update"}
  /\ p \in {"CacheGet", "Read"} => op \in {"get", "auth"}
  /\ p = "CacheSet" => op \in {"get", "auth", "add"}
  /\ p \in {"Invalidate", "Load"} => op \in {"remove", "update"}
  /\ p = "Delete" => op = "remove"
  /\ p \in {"Save", "Reload"} => op = "update"

EmailKeys == {"email"} \X Emails

\* The keys of each operation.
Keyed(c) ==
  /\ c.op \in {"remove", "update"} => \E i \in Ids : c.key = <<"id", i>>
  /\ c.op \in {"add", "auth"} => c.key \in EmailKeys

\* A request at step p, with its call, its context and its local variable.
Reading(p, c, T, h) ==
  /\ AtStep(p, c.op)
  /\ Keyed(c)
  /\ p \in {"CacheGet", "Read"} => T = EmptyTable
  /\ p = "CacheSet" => /\ c.op # "auth"
                       /\ c.key \notin EmailKeys => \A e \in h : c.key \in FiledUnder(e)
  /\ p = "Delete" => \A e \in h : c.key = <<"id", e.id>>
  /\ p = "idle" => T = EmptyTable

InStep == \A r \in Requests : Reading(pc[r], call[r], ctx[r], hand[r])

\* Entries answer to the key they are cached under, addresses aside.
Filed ==
  \A k \in Keys \ EmailKeys : \A e \in redis[k] : k \in FiledUnder(e)

Fitting ==
  \A r \in Requests :
    pc[r] # "idle" /\ pc'[r] = "idle" /\ answer'[r].kind = "ok" =>
      AnswerFits(call[r], answer'[r].data, db')

AnswerInv == TypeInv /\ InStep /\ Filed

\* What a step has to show.
Served == InStep' /\ Filed' /\ Fitting

-----------------------------------------------------------------------------
(***************************************************************************)
(* The ways a request goes on.                                             *)
(***************************************************************************)

LEMMA FiledStays ==
  ASSUME Filed, UNCHANGED redis
  PROVE  Filed'
BY DEF Filed

LEMMA FiledPut ==
  ASSUME TypeInv, Filed, NEW key \in Keys, NEW v,
         key \notin EmailKeys => \A e \in v : key \in FiledUnder(e),
         CachePut(key, v)
  PROVE  Filed'
<1>1. \A k \in Keys : redis'[k] = redis[k] \/ (k = key /\ redis'[k] = v)
  BY DEF CachePut, TypeInv, TypeOK
<1>2. QED
  BY <1>1 DEF Filed

LEMMA Finishing ==
  ASSUME AnswerInv, NEW r \in Requests, NEW kind, NEW data,
         Finish(r, kind, data), Filed',
         kind = "ok" => AnswerFits(call[r], data, db')
  PROVE  Served
<1>1. Reading("idle", NoCall, EmptyTable, {})
  BY DEF Reading, AtStep, Keyed, NoCall, Sent
<1>2. \A q \in Requests : IF q = r
        THEN /\ pc'[q] = "idle" /\ call'[q] = NoCall
             /\ ctx'[q] = EmptyTable /\ hand'[q] = {}
             /\ answer'[q].kind = kind /\ answer'[q].data = data
        ELSE /\ pc'[q] = pc[q] /\ call'[q] = call[q]
             /\ ctx'[q] = ctx[q] /\ hand'[q] = hand[q]
  BY DEF Finish, AnswerInv, TypeInv, TypeOK
<1>3. InStep'
  BY <1>1, <1>2 DEF InStep, AnswerInv
<1>4. Fitting
  BY <1>2 DEF Fitting
<1>5. QED
  BY <1>3, <1>4 DEF Served

LEMMA Continuing ==
  ASSUME AnswerInv, NEW r \in Requests, NEW step, NEW T, NEW v,
         Continue(r, step, T, v), Filed', step # "idle",
         Reading(step, call[r], T, v)
  PROVE  Served
<1>1. \A q \in Requests :
        /\ call'[q] = call[q]
        /\ pc'[q] = IF q = r THEN step ELSE pc[q]
        /\ ctx'[q] = IF q = r THEN T ELSE ctx[q]
        /\ hand'[q] = IF q = r THEN v ELSE hand[q]
  BY DEF Continue, AnswerInv, TypeInv, TypeOK
<1>2. InStep'
  BY <1>1 DEF InStep, AnswerInv
<1>3. Fitting
  BY <1>1 DEF Fitting
<1>4. QED
  BY <1>2, <1>3 DEF Served

LEMMA Judging ==
  ASSUME AnswerInv, NEW r \in Requests, NEW ok, NEW T, NEW next,
         Judge(r, ok, T, next), Filed', next # "idle",
         Reading(next, call[r], T, hand[r])
  PROVE  Served
<1>1. \A q \in Requests :
        /\ call'[q] = call[q] /\ hand'[q] = hand[q]
        /\ pc'[q] = IF q = r THEN next ELSE pc[q]
        /\ ctx'[q] = IF q = r THEN T ELSE ctx[q]
  BY DEF Judge, AnswerInv, TypeInv, TypeOK
<1>2. InStep'
  BY <1>1 DEF InStep, AnswerInv
<1>3. Fitting
  BY <1>1 DEF Fitting
<1>4. QED
  BY <1>2, <1>3 DEF Served

\* A repeat, and everything that happens to nobody's call.
LEMMA Staying ==
  ASSUME AnswerInv, UNCHANGED <<pc, call, ctx, hand, answer>>, Filed'
  PROVE  Served
BY DEF AnswerInv, InStep, Fitting, Served

LEMMA LosingAck ==
  ASSUME AnswerInv, NEW r \in Requests, Unacknowledged(r), Filed'
  PROVE  Served
BY Finishing, Staying DEF Unacknowledged

-----------------------------------------------------------------------------
(***************************************************************************)
(* The steps of a call.                                                    *)
(***************************************************************************)

\* What arrives has the keys of its operation.
LEMMA InputKeyed ==
  ASSUME NEW c \in Inputs
  PROVE  /\ Keyed(Normalised(c))
         /\ Normalised(c).op = c.op
         /\ c.op \in {"get", "auth", "add", "remove", "update"}
<1>1. /\ Normalised(c).key = c.key
      /\ Normalised(c).op = c.op
      /\ c.op \in {"get", "auth", "add", "remove", "update"}
  BY InputTyped DEF Normalised, Sent
<1>2. c \in Calls
  BY InputsAssumption
<1>3. CASE c \in {Lookup(key) : key \in Keys}
  BY <1>1, <1>3 DEF Lookup, Keyed, EmailKeys, Sent
<1>4. CASE c \in {Login(e, w) : e \in Emails, w \in Words}
  BY <1>1, <1>4 DEF Login, Keyed, EmailKeys, Sent
<1>5. CASE c \in {Removal(i) : i \in Ids}
  BY <1>1, <1>5 DEF Removal, Keyed, EmailKeys, Sent
<1>6. CASE c \in {Hiring(e, n, l, w) :
                    e \in Emails \ {Blank}, n \in Numbers,
                    l \in Ids \cup {0, None}, w \in Words}
  BY <1>1, <1>6 DEF Hiring, Keyed, EmailKeys, Sent
<1>7. CASE c \in {Change(i, e, l, w) :
                    i \in Ids, e \in Emails \cup {None},
                    l \in Ids \cup {0, None}, w \in Words \cup {None}}
  BY <1>1, <1>7 DEF Change, Keyed, EmailKeys, Sent
<1>8. QED
  BY <1>2, <1>3, <1>4, <1>5, <1>6, <1>7 DEF Calls

LEMMA ReceiveServed ==
  ASSUME AnswerInv, NEW r \in Requests, Receive(r)
  PROVE  Served
<1>1. PICK c \in Inputs :
        /\ pc' = [pc EXCEPT ![r] = FirstStep[c.op]]
        /\ call' = [call EXCEPT ![r] = Normalised(c)]
  BY DEF Receive
<1>2. pc[r] = "idle" /\ UNCHANGED <<shared, ctx, tries, hand>>
  BY DEF Receive
<1>3. Reading(FirstStep[c.op], Normalised(c), EmptyTable, hand[r])
  BY InputKeyed DEF FirstStep, Reading, AtStep
<1>4. Reading(pc[r], call[r], ctx[r], hand[r])
  BY DEF AnswerInv, InStep
<1>5. ctx[r] = EmptyTable
  BY <1>2, <1>4 DEF Reading
<1>6. \A q \in Requests :
        /\ ctx'[q] = ctx[q] /\ hand'[q] = hand[q]
        /\ pc'[q] = IF q = r THEN FirstStep[c.op] ELSE pc[q]
        /\ call'[q] = IF q = r THEN Normalised(c) ELSE call[q]
  BY <1>1, <1>2 DEF AnswerInv, TypeInv, TypeOK
<1>7. InStep'
  BY <1>3, <1>5, <1>6 DEF InStep, AnswerInv
<1>8. FirstStep[c.op] # "idle"
  BY InputKeyed DEF FirstStep
<1>9. Fitting
  BY <1>2, <1>6, <1>8 DEF Fitting
<1>10. Filed'
  BY <1>2, FiledStays DEF AnswerInv, shared
<1>11. QED
  BY <1>7, <1>9, <1>10 DEF Served

LEMMA RulesServed ==
  ASSUME AnswerInv, NEW r \in Requests,
         EmailRule(r) \/ NumberRule(r) \/ LeaderRule(r)
  PROVE  Served
<1>1. Filed'
  BY FiledStays DEF AnswerInv, EmailRule, NumberRule, LeaderRule, shared
<1>2. Reading(pc[r], call[r], ctx[r], hand[r])
  BY DEF AnswerInv, InStep
<1>3. ASSUME NEW ok, NEW T,
             NEW next \in {"NumberRule", "LeaderRule", "EmailRule", "Load",
                           "Insert"},
             next \in {"NumberRule", "Insert"} => call[r].op = "add",
             next \in {"EmailRule", "LeaderRule"}
               => call[r].op \in {"add", "update"},
             next = "Load" => call[r].op = "update",
             Judge(r, ok, T, next) \/ Finish(r, "bad", {})
      PROVE  Served
  <2>1. Reading(next, call[r], T, hand[r])
    BY <1>2, <1>3 DEF Reading, AtStep
  <2>2. CASE Judge(r, ok, T, next)
    BY <1>1, <1>3, <2>1, <2>2, Judging
  <2>3. CASE Finish(r, "bad", {})
    BY <1>1, <2>3, Finishing
  <2>4. QED
    BY <1>3, <2>2, <2>3
<1>4. CASE EmailRule(r)
  <2>1. CASE call[r].op = "add" /\ Judge(r, EmailFree(r), ctx[r], "NumberRule")
    BY <1>3, <2>1
  <2>2. CASE call[r].op = "update" /\ Verdict(r, EmailFree(r), ctx[r], "Load")
    BY <1>3, <2>2 DEF Verdict
  <2>3. QED
    BY <1>4, <2>1, <2>2 DEF EmailRule
<1>5. CASE NumberRule(r)
  BY <1>2, <1>3, <1>5 DEF NumberRule, Reading, AtStep
<1>6. CASE LeaderRule(r)
  <2> DEFINE T == IF call[r].leader \in Live(db)
                  THEN Tracking(r, call[r].leader) ELSE ctx[r]
  <2>1. CASE call[r].op = "add" /\ Verdict(r, LeaderThere(r), T, "Insert")
    <3> HIDE DEF T
    <3>1. QED
      BY <1>3, <2>1 DEF Verdict
  <2>2. CASE call[r].op = "update" /\ Judge(r, LeaderThere(r), T, "EmailRule")
    <3> HIDE DEF T
    <3>1. QED
      BY <1>3, <2>2
  <2>3. QED
    BY <1>6, <2>1, <2>2 DEF LeaderRule
<1>7. QED
  BY <1>4, <1>5, <1>6

LEMMA AddServed ==
  ASSUME AnswerInv, NEW r \in Requests,
         InsertRejected(r) \/ Insert(r) \/ AddCacheGet(r) \/ AddReload(r)
  PROVE  Served
<1>1. Filed'
  BY FiledStays
     DEF AnswerInv, InsertRejected, Insert, AddCacheGet, AddReload, shared
<1>2. /\ Reading(pc[r], call[r], ctx[r], hand[r])
      /\ pc[r] \in {"Insert", "AddCacheGet", "AddReload"}
  BY DEF AnswerInv, InStep, InsertRejected, Insert, AddCacheGet, AddReload
<1>3. call[r].op = "add" /\ call[r].key \in EmailKeys
  BY <1>2 DEF Reading, AtStep, Keyed
<1>4. ASSUME NEW step \in {"AddCacheGet", "AddReload", "CacheSet"},
             NEW T, NEW v, Continue(r, step, T, v)
      PROVE  Served
  <2>1. Reading(step, call[r], T, v)
    BY <1>2, <1>3 DEF Reading, AtStep
  <2>2. QED
    BY <1>1, <1>4, <2>1, Continuing
<1>5. ASSUME NEW kind, NEW data, Finish(r, kind, data)
      PROVE  Served
  BY <1>1, <1>3, <1>5, Finishing DEF AnswerFits
<1>6. CASE InsertRejected(r)
  BY <1>5, <1>6 DEF InsertRejected
<1>7. CASE Insert(r)
  BY <1>1, <1>4, <1>7, LosingAck DEF Insert
<1>8. CASE AddCacheGet(r)
  BY <1>4, <1>5, <1>8 DEF AddCacheGet
<1>9. CASE AddReload(r)
  BY <1>4, <1>9 DEF AddReload
<1>10. QED
  BY <1>6, <1>7, <1>8, <1>9

\* What a context that tracked nothing shows of a found row is that row.
LEMMA FreshRow ==
  ASSUME AnswerInv, NEW r \in Requests, ctx[r] = EmptyTable,
         NEW i \in Find(db, call[r].key)
  PROVE  call[r].key \in FiledUnder(EntryOf(Tracking(r, i), i))
<1>1. i \in Ids
  BY DEF Find, Live
<1>2. Tracking(r, i)[i] = db[i]
  BY <1>1 DEF Tracking, EmptyTable
<1>3. EntryOf(Tracking(r, i), i) = EntryOf(db, i)
  BY <1>2 DEF EntryOf
<1>4. QED
  BY <1>3 DEF Find

LEMMA LookupServed ==
  ASSUME AnswerInv, NEW r \in Requests,
         CacheGet(r) \/ ReadNone(r) \/ ReadOne(r) \/ ReadAll(r)
  PROVE  Served
<1>1. Filed'
  BY FiledStays DEF AnswerInv, CacheGet, ReadNone, ReadOne, ReadAll, shared
<1>2. /\ Reading(pc[r], call[r], ctx[r], hand[r])
      /\ pc[r] \in {"CacheGet", "Read"}
  BY DEF AnswerInv, InStep, CacheGet, ReadNone, ReadOne, ReadAll
<1>3. /\ call[r].op \in {"get", "auth"} /\ ctx[r] = EmptyTable
      /\ Keyed(call[r]) /\ call[r].key \in Keys
  BY <1>2, CallTyped DEF Reading, AtStep, AnswerInv
<1>4. ASSUME NEW e, Compare(r, e), call[r].op = "auth"
      PROVE  Served
  BY <1>1, <1>4, Finishing DEF Compare, AnswerFits
<1>5. CASE CacheGet(r)
  <2> DEFINE v == Cached(call[r].key)
  <2>1. CASE v = {} /\ Continue(r, "Read", ctx[r], {})
    <3>1. Reading("Read", call[r], ctx[r], {})
      BY <1>3 DEF Reading, AtStep
    <3>2. QED
      BY <1>1, <2>1, <3>1, Continuing
  <2>2. CASE call[r].op = "get" /\ Finish(r, "ok", v)
    <3>1. \A e \in v : call[r].key \notin EmailKeys => call[r].key \in FiledUnder(e)
      BY <1>3 DEF Cached, AnswerInv, Filed
    <3>2. AnswerFits(call[r], v, db')
      BY <2>2, <3>1 DEF AnswerFits, EmailKeys
    <3> HIDE DEF v
    <3>3. QED
      BY <1>1, <2>2, <3>2, Finishing
  <2>3. CASE call[r].op = "auth" /\ \E e \in v : Compare(r, e)
    BY <1>4, <2>3
  <2>4. QED
    BY <1>5, <2>1, <2>2, <2>3 DEF CacheGet
<1>6. CASE ReadNone(r)
  <2> DEFINE kind == NotFound(call[r].op, call[r].key)
  <2>1. kind = "ok" => call[r].op = "get"
    BY <1>3 DEF NotFound
  <2>2. kind = "ok" => AnswerFits(call[r], {}, db')
    BY <2>1 DEF AnswerFits
  <2>3. Finish(r, kind, {})
    BY <1>6 DEF ReadNone
  <2> HIDE DEF kind
  <2>4. QED
    BY <1>1, <2>2, <2>3, Finishing
<1>7. CASE ReadOne(r)
  <2>1. PICK i \in Find(db, call[r].key) :
          LET T == Tracking(r, i)
          IN \/ call[r].op = "get"
                /\ Continue(r, "CacheSet", T, {EntryOf(T, i)})
             \/ call[r].op = "auth" /\ Compare(r, EntryOf(T, i))
    BY <1>7 DEF ReadOne
  <2> DEFINE T == Tracking(r, i)
  <2>2. call[r].key \in FiledUnder(EntryOf(T, i))
    BY <1>3, FreshRow
  <2>3. CASE call[r].op = "get" /\ Continue(r, "CacheSet", T, {EntryOf(T, i)})
    <3>1. Reading("CacheSet", call[r], T, {EntryOf(T, i)})
      BY <1>3, <2>2, <2>3 DEF Reading, AtStep
    <3> HIDE DEF T
    <3>2. QED
      BY <1>1, <2>3, <3>1, Continuing
  <2>4. CASE call[r].op = "auth" /\ Compare(r, EntryOf(T, i))
    BY <1>4, <2>4
  <2>5. QED
    BY <2>1, <2>3, <2>4
<1>8. CASE ReadAll(r)
  <2>1. call[r].key = AllKey /\ Continue(r, "CacheSet", db, Entries(db))
    BY <1>8 DEF ReadAll
  <2>2. \A e \in Entries(db) : AllKey \in FiledUnder(e)
    BY DEF FiledUnder
  <2>3. call[r].op = "get"
    BY <1>3, <2>1 DEF Keyed, EmailKeys, AllKey
  <2>4. Reading("CacheSet", call[r], db, Entries(db))
    BY <1>3, <2>1, <2>2, <2>3 DEF Reading, AtStep
  <2>5. QED
    BY <1>1, <2>1, <2>4, Continuing
<1>9. QED
  BY <1>5, <1>6, <1>7, <1>8

LEMMA CacheSetServed ==
  ASSUME AnswerInv, NEW r \in Requests, CacheSet(r)
  PROVE  Served
<1>1. Reading("CacheSet", call[r], ctx[r], hand[r]) /\ call[r].key \in Keys
  BY CallTyped DEF AnswerInv, InStep, CacheSet
<1>2. CASE CachePut(call[r].key, hand[r]) /\ Finish(r, "ok", hand[r])
  <2>1. call[r].key \notin EmailKeys
          => \A e \in hand[r] : call[r].key \in FiledUnder(e)
    BY <1>1 DEF Reading
  <2>2. Filed'
    BY <1>1, <1>2, <2>1, FiledPut DEF AnswerInv
  <2>3. AnswerFits(call[r], hand[r], db')
    BY <1>1, <2>1 DEF Reading, AtStep, AnswerFits, EmailKeys
  <2>4. QED
    BY <1>2, <2>2, <2>3, Finishing
<1>3. CASE redis' = redis /\ Finish(r, "error", {})
  BY <1>3, FiledStays, Finishing DEF AnswerInv
<1>4. QED
  BY <1>2, <1>3 DEF CacheSet

LEMMA InvalidateServed ==
  ASSUME AnswerInv, NEW r \in Requests, Invalidate(r)
  PROVE  Served
<1>1. Reading("Invalidate", call[r], ctx[r], hand[r]) /\ call[r].key \in Keys
  BY CallTyped DEF AnswerInv, InStep, Invalidate
<1>2. Filed'
  BY <1>1, FiledPut DEF AnswerInv, Invalidate
<1>3. CASE call[r].op = "remove" /\ Continue(r, "Load", ctx[r], {})
  <2>1. Reading("Load", call[r], ctx[r], {})
    BY <1>1, <1>3 DEF Reading, AtStep
  <2>2. QED
    BY <1>2, <1>3, <2>1, Continuing
<1>4. CASE call[r].op = "update" /\ Continue(r, "LeaderRule", ctx[r], {})
  <2>1. Reading("LeaderRule", call[r], ctx[r], {})
    BY <1>1, <1>4 DEF Reading, AtStep
  <2>2. QED
    BY <1>2, <1>4, <2>1, Continuing
<1>5. QED
  BY <1>3, <1>4 DEF Invalidate

LEMMA LoadServed ==
  ASSUME AnswerInv, NEW r \in Requests,
         LoadNone(r) \/ LoadForDelete(r) \/ LoadForSave(r)
  PROVE  Served
<1>1. Filed'
  BY FiledStays DEF AnswerInv, LoadNone, LoadForDelete, LoadForSave, shared
<1>2. Reading("Load", call[r], ctx[r], hand[r])
  BY DEF AnswerInv, InStep, LoadNone, LoadForDelete, LoadForSave
<1>3. CASE LoadNone(r)
  BY <1>1, <1>3, Finishing DEF LoadNone
<1>4. CASE LoadForDelete(r)
  <2>1. PICK i \in Find(db, call[r].key) :
          Continue(r, "Delete", Tracking(r, i), {EntryOf(Tracking(r, i), i)})
    BY <1>4 DEF LoadForDelete
  <2>2. call[r].op = "remove"
    BY <1>4 DEF LoadForDelete
  <2>3. call[r].key = <<"id", i>>
    BY <1>2, <2>2 DEF Find, FiledUnder, EntryOf, Reading, Keyed, AllKey
  <2>4. EntryOf(Tracking(r, i), i).id = i
    BY DEF EntryOf
  <2>5. Reading("Delete", call[r], Tracking(r, i), {EntryOf(Tracking(r, i), i)})
    BY <1>2, <2>2, <2>3, <2>4 DEF Reading, AtStep
  <2>6. QED
    BY <1>1, <2>1, <2>5, Continuing
<1>5. CASE LoadForSave(r)
  <2>1. PICK T, v : Continue(r, "Save", T, v)
    BY <1>5 DEF LoadForSave
  <2>2. call[r].op = "update"
    BY <1>5 DEF LoadForSave
  <2>3. Reading("Save", call[r], T, v)
    BY <1>2, <2>2 DEF Reading, AtStep
  <2>4. QED
    BY <1>1, <2>1, <2>3, Continuing
<1>6. QED
  BY <1>3, <1>4, <1>5

LEMMA DeleteServed ==
  ASSUME AnswerInv, NEW r \in Requests, DeleteMissed(r) \/ Delete(r)
  PROVE  Served
<1>1. Filed'
  BY FiledStays DEF AnswerInv, DeleteMissed, Delete, shared
<1>2. CASE DeleteMissed(r)
  BY <1>1, <1>2, Finishing DEF DeleteMissed
<1>3. CASE Delete(r)
  <2>1. Reading("Delete", call[r], ctx[r], hand[r])
    BY <1>3 DEF AnswerInv, InStep, Delete
  <2>2. PICK e \in hand[r] : db[e.id] # NoRow /\ db' = DeleteRow(db, e.id)
    BY <1>3 DEF Delete
  <2>3. e.id \in Live(db) /\ db \in Table
    BY <2>2, CallTyped DEF AnswerInv, Entry, Live
  <2>4. db'[e.id] = NoRow
    BY <2>2, <2>3, DeleteRowTyped
  <2>5. \A d \in hand[r] : <<"id", d.id>> = call[r].key /\ d.id = e.id
    BY <2>1, <2>2 DEF Reading
  <2>6. AnswerFits(call[r], hand[r], db')
    BY <2>1, <2>4, <2>5 DEF Reading, AtStep, AnswerFits
  <2>7. CASE Finish(r, "ok", hand[r])
    BY <1>1, <2>6, <2>7, Finishing
  <2>8. CASE Unacknowledged(r)
    BY <1>1, <2>8, LosingAck
  <2>9. QED
    BY <1>3, <2>7, <2>8 DEF Delete
<1>4. QED
  BY <1>2, <1>3

LEMMA SaveServed ==
  ASSUME AnswerInv, NEW r \in Requests,
         SaveMissed(r) \/ SaveRejected(r) \/ Save(r) \/ Reload(r)
  PROVE  Served
<1>1. Filed'
  BY FiledStays DEF AnswerInv, SaveMissed, SaveRejected, Save, Reload, shared
<1>2. /\ Reading(pc[r], call[r], ctx[r], hand[r])
      /\ pc[r] \in {"Save", "Reload"}
  BY DEF AnswerInv, InStep, SaveMissed, SaveRejected, Save, Reload
<1>3. call[r].op = "update"
  BY <1>2 DEF Reading, AtStep
<1>4. ASSUME NEW kind, NEW data, Finish(r, kind, data)
      PROVE  Served
  BY <1>1, <1>3, <1>4, Finishing DEF AnswerFits
<1>5. CASE Continue(r, "Reload", ctx[r], hand[r])
  <2>1. Reading("Reload", call[r], ctx[r], hand[r])
    BY <1>2, <1>3 DEF Reading, AtStep
  <2>2. QED
    BY <1>1, <1>5, <2>1, Continuing
<1>6. CASE Unacknowledged(r)
  BY <1>1, <1>6, LosingAck
<1>7. QED
  BY <1>4, <1>5, <1>6 DEF SaveMissed, SaveRejected, Save, Reload

\* What happens to all calls alike, and what happens to none.
LEMMA OthersServed ==
  ASSUME AnswerInv,
         \/ \E r \in Requests : Retry(r) \/ Abort(r)
         \/ \E key \in Keys : Expire(key)
         \/ Relink \/ RestartDb \/ UNCHANGED vars
  PROVE  Served
<1>1. CASE \E r \in Requests : Retry(r)
  BY <1>1, FiledStays, Staying DEF AnswerInv, Retry, shared
<1>2. CASE \E r \in Requests : Abort(r)
  BY <1>2, FiledStays, Finishing DEF AnswerInv, Abort, shared
<1>3. CASE \E key \in Keys : Expire(key)
  <2>1. PICK key \in Keys : /\ redis' = [redis EXCEPT ![key] = {}]
                            /\ UNCHANGED own
    BY <1>3 DEF Expire
  <2>2. \A k \in Keys : redis'[k] \subseteq redis[k]
    BY <2>1 DEF AnswerInv, TypeInv, TypeOK
  <2>3. Filed'
    BY <2>2 DEF AnswerInv, Filed
  <2>4. QED
    BY <2>1, <2>3, Staying DEF own
<1>4. CASE Relink \/ RestartDb \/ UNCHANGED vars
  BY <1>4, FiledStays, Staying
     DEF AnswerInv, Relink, RestartDb, vars, shared, own
<1>5. QED
  BY <1>1, <1>2, <1>3, <1>4

-----------------------------------------------------------------------------
(***************************************************************************)
(* The theorem.                                                            *)
(***************************************************************************)

LEMMA StepServed ==
  AnswerInv /\ [Next]_vars => Served
<1> SUFFICES ASSUME AnswerInv, [Next]_vars PROVE Served
  OBVIOUS
<1>1. ASSUME NEW r \in Requests, Work(r) PROVE Served
  BY <1>1, RulesServed, AddServed, LookupServed, CacheSetServed,
     InvalidateServed, LoadServed, DeleteServed, SaveServed, OthersServed
     DEF Work
<1>2. QED
  BY <1>1, ReceiveServed, OthersServed DEF Next

LEMMA InitServed == Init => InStep /\ Filed
<1> SUFFICES ASSUME Init PROVE InStep /\ Filed
  OBVIOUS
<1>1. Reading("idle", NoCall, EmptyTable, {})
  BY DEF Reading, AtStep, Keyed, NoCall, Sent
<1>2. QED
  BY <1>1 DEF Init, InStep, Filed

LEMMA AnswersInvariant == Spec => []AnswerInv
<1>1. AnswerInv /\ TypeInv' /\ [Next]_vars => AnswerInv'
  BY StepServed DEF Served, AnswerInv
<1>2. TypeInv /\ InStep /\ Filed => AnswerInv
  BY DEF AnswerInv
<1>3. QED
  BY <1>1, <1>2, InitServed, TypeInvariant, PTL DEF Spec

\* A lookup that succeeds names the employee asked for, a login that succeeds
\* shows an employee whose sealed password is the one typed, and a removal that
\* succeeds has left no row under its Id: whatever was cached before, whatever
\* other requests do meanwhile, and under every fault.
THEOREM AnswersFitCalls == Spec => AnswersFit
<1>1. AnswerInv /\ [Next]_vars =>
        [\A r \in Requests :
           pc[r] # "idle" /\ pc'[r] = "idle" /\ answer'[r].kind = "ok" =>
             AnswerFits(call[r], answer'[r].data, db')]_vars
  BY StepServed DEF Served, Fitting
<1>2. QED
  BY <1>1, AnswersInvariant, PTL DEF Spec, AnswersFit
=============================================================================
