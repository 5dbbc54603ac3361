----------------------- MODULE EmployeeService_proofs -----------------------
(***************************************************************************)
(* Proofs about EmployeeService, for every value of its constants: types,  *)
(* referential integrity, and the identity of employees.                   *)
(***************************************************************************)
EXTENDS EmployeeService, TLAPS

-----------------------------------------------------------------------------
(***************************************************************************)
(* Lemmas about the table.                                                 *)
(***************************************************************************)

\* What a table shows of a row is an entry.
LEMMA EntriesTyped ==
  ASSUME NEW T \in Table
  PROVE  /\ Entries(T) \subseteq Entry
         /\ \A i \in Live(T) : EntryOf(T, i) \in Entry
BY DEF Entries, EntryOf, Entry, Live, Table

\* A cascade only removes rows, the one it starts from among them.
LEMMA DeleteRowTyped ==
  ASSUME NEW T \in Table, NEW i \in Live(T)
  PROVE  /\ DeleteRow(T, i) \in Table
         /\ DeleteRow(T, i)[i] = NoRow
         /\ \A j \in Ids : DeleteRow(T, i)[j] \in {T[j], NoRow}
<1>1. DeleteRow(T, i) \in Table
  BY DEF DeleteRow, Table
<1>2. i \in Doomed(T, i)
  BY DEF Doomed
<1>3. QED
  BY <1>1, <1>2 DEF DeleteRow, Live

\* ON DELETE CASCADE keeps referential integrity: whoever is led by a removed row
\* is removed, and removing rows makes no two followers equal.
LEMMA CascadeConsistent ==
  ASSUME NEW T \in Table, NEW i \in Live(T), Consistent(T)
  PROVE  Consistent(DeleteRow(T, i))
<1> DEFINE D == DeleteRow(T, i)
<1>1. \A j \in Live(D) : j \in Live(T) /\ j \notin Doomed(T, i) /\ D[j] = T[j]
  BY NoRowAssumption DEF DeleteRow, Live, Doomed
<1>2. LeadersExist(D)
  <2> SUFFICES ASSUME NEW j \in Live(D), T[j].leader # None
               PROVE  T[j].leader \in Live(D)
    BY <1>1 DEF LeadersExist
  <2> DEFINE l == T[j].leader
  <2>1. l \in Live(T)
    BY <1>1 DEF Consistent, LeadersExist
  <2>2. SUFFICES ASSUME l \in Doomed(T, i) PROVE FALSE
    BY <2>1 DEF DeleteRow, Live
  <2>3. ASSUME NEW S \in SUBSET Live(T), i \in S, ClosedUnderFollowers(T, S)
        PROVE  j \in S
    BY <1>1, <2>2, <2>3 DEF Doomed, ClosedUnderFollowers
  <2>4. j \in Doomed(T, i)
    BY <1>1, <2>3 DEF Doomed
  <2>5. QED
    BY <1>1, <2>4
<1>3. OneFollowerEach(D)
  BY <1>1 DEF Consistent, OneFollowerEach
<1>4. QED
  BY <1>2, <1>3 DEF Consistent

\* UpdateAsync assigns well-typed fields and never the employee number.
LEMMA MergeTyped ==
  ASSUME NEW c \in Call, NEW row \in Row
  PROVE  Merge(c, row) \in Row /\ Merge(c, row).number = row.number
<1>1. Or(c.email, row.email) \in Emails
  BY DEF Or, Call, Row
<1>2. (IF c.word = None THEN row.password ELSE Plain(c.word)) \in Password
  BY DEF Plain, Password, Call, Row
<1>3. (IF c.leader = 0 THEN None ELSE Or(c.leader, row.leader))
        \in Ids \cup {None}
  BY DEF Or, Call, Row
<1>4. QED
  BY <1>1, <1>2, <1>3 DEF Merge, Row

\* Assigning the same fields once more changes nothing.
LEMMA MergeTwice ==
  ASSUME NEW c \in Call, NEW row \in Row
  PROVE  Merge(c, Merge(c, row)) = Merge(c, row)
<1> DEFINE m == Merge(c, row)
           mail == Or(c.email, row.email)
           lead == IF c.leader = 0 THEN None ELSE Or(c.leader, row.leader)
           word == IF c.word = None THEN row.password ELSE Plain(c.word)
<1>1. /\ m.email = mail /\ m.leader = lead /\ m.password = word
      /\ m \in Row
  BY MergeTyped DEF Merge, Row
<1>2. /\ Or(c.email, mail) = mail
      /\ (IF c.leader = 0 THEN None ELSE Or(c.leader, lead)) = lead
      /\ (IF c.word = None THEN word ELSE Plain(c.word)) = word
  BY DEF Or
<1> HIDE DEF m, mail, lead, word
<1>3. [m EXCEPT !.email = mail, !.password = word, !.leader = lead] = m
  BY <1>1 DEF Row
<1>4. Merge(c, m) = [m EXCEPT !.email = mail, !.password = word, !.leader = lead]
  BY <1>1, <1>2 DEF Merge
<1>5. QED
  BY <1>3, <1>4 DEF m

-----------------------------------------------------------------------------
(***************************************************************************)
(* Types.  NewRow is well typed only because no other call than AddAsync   *)
(* inserts, and because its arguments are there and its leader is not 0.   *)
(***************************************************************************)

AddCall == [op : {"add"}, key : Keys, email : Emails, number : Numbers,
            leader : Ids \cup {None}, word : Words]

\* Only an addition inserts, with all its fields there.
Inserting == \A r \in Requests :
  /\ call[r].op = "add" => call[r] \in AddCall
  /\ pc[r] = "Insert" => call[r].op = "add"

TypeInv == TypeOK /\ Inserting

OwnType ==
  /\ pc \in [Requests -> Steps]
  /\ call \in [Requests -> Call]
  /\ ctx \in [Requests -> Table]
  /\ valid \in [Requests -> BOOLEAN]
  /\ tries \in [Requests -> 0 .. MaxRetries]
  /\ hand \in [Requests -> SUBSET Entry]
  /\ answer \in [Requests -> Answer]

Kinds == {"none", "ok", "bad", "notfound", "error"}

LEMMA NoCallTyped == NoCall \in Call /\ NoCall.op = "none"
BY DEF NoCall, Sent, Call, Keys

LEMMA FinishTyped ==
  ASSUME TypeInv, NEW r \in Requests, NEW kind \in Kinds,
         NEW data \in SUBSET Entry, Finish(r, kind, data)
  PROVE  OwnType' /\ Inserting'
<1> USE DEF TypeInv, TypeOK, Finish
<1>1. EmptyTable \in Table
  BY DEF EmptyTable, Table
<1>2. [kind |-> kind, data |-> data] \in Answer
  BY DEF Answer, Kinds
<1>3. "idle" \in Steps
  BY DEF Steps
<1>4. OwnType'
  BY <1>1, <1>2, <1>3, NoCallTyped, BoundsAssumption DEF OwnType
<1>5. Inserting'
  BY NoCallTyped DEF Inserting
<1>6. QED
  BY <1>4, <1>5

LEMMA ContinueTyped ==
  ASSUME TypeInv, NEW r \in Requests, NEW step \in Steps \ {"Insert"},
         NEW T \in Table, NEW v \in SUBSET Entry, Continue(r, step, T, v)
  PROVE  OwnType' /\ Inserting'
<1> USE DEF TypeInv, TypeOK, Continue
<1>1. OwnType'
  BY DEF OwnType
<1>2. Inserting'
  BY DEF Inserting
<1>3. QED
  BY <1>1, <1>2

\* A rule, whatever it found, only moves on, keeps a truth value and may track a
\* row.
Ruled(r, T, next) ==
  /\ pc' = [pc EXCEPT ![r] = next]
  /\ valid' \in [Requests -> BOOLEAN]
  /\ ctx' = [ctx EXCEPT ![r] = T]
  /\ UNCHANGED <<call, tries, hand, answer>>

LEMMA RuledTyped ==
  ASSUME TypeInv, NEW r \in Requests, NEW T \in Table,
         NEW next \in Steps, next = "Insert" => call[r].op = "add",
         Ruled(r, T, next)
  PROVE  OwnType' /\ Inserting'
<1> USE DEF TypeInv, TypeOK, Ruled
<1>1. OwnType'
  BY DEF OwnType
<1>2. Inserting'
  BY DEF Inserting
<1>3. QED
  BY <1>1, <1>2

LEMMA UnacknowledgedTyped ==
  ASSUME TypeInv, NEW r \in Requests, Unacknowledged(r)
  PROVE  OwnType' /\ Inserting'
<1>1. CASE Finish(r, "error", {})
  BY <1>1, FinishTyped DEF Kinds
<1>2. CASE /\ tries[r] < MaxRetries
           /\ tries' = [tries EXCEPT ![r] = @ + 1]
           /\ UNCHANGED <<pc, call, ctx, valid, hand, answer>>
  BY <1>2, BoundsAssumption DEF TypeInv, TypeOK, OwnType, Inserting
<1>3. QED
  BY <1>1, <1>2 DEF Unacknowledged

LEMMA TrackingTyped ==
  ASSUME TypeOK, NEW r \in Requests, NEW i \in Live(db)
  PROVE  /\ Tracking(r, i) \in Table
         /\ i \in Live(Tracking(r, i))
         /\ Tracking(r, i)[i] \in Row
BY NoRowAssumption DEF Tracking, TypeOK, Table, Live

\* A context that tracks rows of T as they are.
Mirrors(X, T) == \A j \in Ids : X[j] \in {NoRow, T[j]}

LEMMA TrackingMirrors ==
  ASSUME NEW r \in Requests, NEW i, Mirrors(ctx[r], db), ctx[r] \in Table
  PROVE  Mirrors(Tracking(r, i), db)
BY DEF Mirrors, Tracking, Table

LEMMA FindTyped ==
  ASSUME NEW T, NEW key
  PROVE  Find(T, key) \subseteq Live(T)
BY DEF Find

LEMMA EntryTyped ==
  ASSUME NEW T \in Table, NEW i \in Live(T)
  PROVE  {EntryOf(T, i)} \in SUBSET Entry
BY EntriesTyped

LEMMA CompareTyped ==
  ASSUME TypeInv, NEW r \in Requests, NEW e \in Entry, Compare(r, e)
  PROVE  OwnType' /\ Inserting'
BY FinishTyped DEF Compare, Kinds

\* One request at a time: as many calls as one likes, one after the other.
OneAtATime == \A q, r \in Requests : q = r

\* The shared variables keep their types when none of them changes, and the
\* cache keeps its type when an entry set is put or dropped.
SharedType ==
  /\ db \in Table
  /\ nextId \in 1 .. MaxId + 1
  /\ redis \in [Keys -> SUBSET Entry]
  /\ linked \in BOOLEAN

LEMMA SharedUnchanged ==
  ASSUME TypeOK, UNCHANGED shared
  PROVE  SharedType'
BY DEF TypeOK, SharedType, shared

LEMMA CachePutTyped ==
  ASSUME TypeOK, NEW key \in Keys, NEW v \in SUBSET Entry,
         CachePut(key, v) \/ redis' = redis, UNCHANGED <<db, nextId, linked>>
  PROVE  SharedType'
BY DEF TypeOK, SharedType, CachePut

LEMMA CachedTyped ==
  ASSUME TypeOK, NEW key \in Keys
  PROVE  Cached(key) \in SUBSET Entry
BY DEF TypeOK, Cached

LEMMA CallTyped ==
  ASSUME TypeInv, NEW r \in Requests
  PROVE  /\ call[r] \in Call /\ call[r].key \in Keys
         /\ ctx[r] \in Table /\ hand[r] \in SUBSET Entry
         /\ db \in Table
BY DEF TypeInv, TypeOK, Call

\* The row that AddAsync inserts.
LEMMA InsertedTyped ==
  ASSUME TypeInv, NEW r \in Requests, pc[r] = "Insert", NewId <= MaxId
  PROVE  /\ NewId \in Ids
         /\ NewRow(call[r]) \in Row
         /\ InsertedTable(r) \in Table
         /\ [ctx[r] EXCEPT ![NewId] = NewRow(call[r])] \in Table
<1>1. NewId \in Ids
  BY MaxIdAssumption DEF NewId, TypeInv, TypeOK, Ids
<1>2. NewRow(call[r]) \in Row
  BY DEF NewRow, TypeInv, Inserting, AddCall, Row, Seal, Password
<1>3. QED
  BY <1>1, <1>2, CallTyped DEF InsertedTable, Table

\* The table after an UPDATE.
LEMMA SavedTyped ==
  ASSUME NEW e \in Entry, NEW freed, db \in Table,
         freed \cup {e.id} \subseteq Live(db)
  PROVE  SavedTable(e, freed) \in Table
<1>1. \A j \in freed : [db[j] EXCEPT !.leader = None] \in Row
  BY DEF Live, Table, Row
<1>2. e.row \in Row
  BY DEF Entry
<1>3. QED
  BY <1>1, <1>2 DEF SavedTable, Table

LEMMA InitTyped == Init => TypeInv
<1> SUFFICES ASSUME Init PROVE TypeInv
  OBVIOUS
<1> USE DEF Init
<1>1. db \in Table
  BY SeedsAssumption
<1>2. nextId \in 1 .. MaxId + 1
  BY DEF Follows
<1>3. EmptyTable \in Table
  BY DEF EmptyTable, Table
<1>4. NoAnswer \in Answer
  BY DEF NoAnswer, Answer
<1>5. TypeOK
  BY <1>1, <1>2, <1>3, <1>4, NoCallTyped, BoundsAssumption DEF TypeOK, Steps
<1>6. Inserting
  BY NoCallTyped DEF Inserting
<1>7. QED
  BY <1>5, <1>6 DEF TypeInv

\* What arrives is a call with the fields of its operation.
LEMMA InputTyped ==
  ASSUME NEW c \in Inputs
  PROVE  /\ Normalised(c) \in Call
         /\ Normalised(c).op = c.op
         /\ c.op \in {"get", "auth", "add", "remove", "update"}
         /\ c.op = "add" => Normalised(c) \in AddCall
<1>0. \/ \E key \in Keys : c = Lookup(key)
      \/ \E e \in Emails, w \in Words : c = Login(e, w)
      \/ \E i \in Ids : c = Removal(i)
      \/ \E e \in Emails \ {Blank}, n \in Numbers, l \in Ids \cup {0, None},
            w \in Words : c = Hiring(e, n, l, w)
      \/ \E i \in Ids, e \in Emails \cup {None}, l \in Ids \cup {0, None},
            w \in Words \cup {None} : c = Change(i, e, l, w)
  <2>1. c \in Calls
    BY InputsAssumption
  <2>2. CASE c \in {Lookup(key) : key \in Keys}
    BY <2>2
  <2>3. CASE c \in {Login(e, w) : e \in Emails, w \in Words}
    BY <2>3
  <2>4. CASE c \in {Removal(i) : i \in Ids}
    BY <2>4
  <2>5. CASE c \in {Hiring(e, n, l, w) :
                      e \in Emails \ {Blank}, n \in Numbers,
                      l \in Ids \cup {0, None}, w \in Words}
    BY <2>5
  <2>6. CASE c \in {Change(i, e, l, w) :
                      i \in Ids, e \in Emails \cup {None},
                      l \in Ids \cup {0, None}, w \in Words \cup {None}}
    BY <2>6
  <2>7. QED
    BY <2>1, <2>2, <2>3, <2>4, <2>5, <2>6 DEF Calls
<1> USE DEF Normalised, Sent, Call, AddCall, Keys
<1>1. CASE \E key \in Keys : c = Lookup(key)
  BY <1>1 DEF Lookup
<1>2. CASE \E e \in Emails, w \in Words : c = Login(e, w)
  BY <1>2 DEF Login
<1>3. CASE \E i \in Ids : c = Removal(i)
  BY <1>3 DEF Removal
<1>4. CASE \E e \in Emails \ {Blank}, n \in Numbers, l \in Ids \cup {0, None},
              w \in Words : c = Hiring(e, n, l, w)
  <2> PICK e \in Emails \ {Blank}, n \in Numbers, l \in Ids \cup {0, None},
           w \in Words : c = Hiring(e, n, l, w)
    BY <1>4
  <2>1. CASE l = 0
    BY <2>1 DEF Hiring
  <2>2. CASE l # 0
    BY <2>2 DEF Hiring
  <2>3. QED
    BY <2>1, <2>2
<1>5. CASE \E i \in Ids, e \in Emails \cup {None}, l \in Ids \cup {0, None},
              w \in Words \cup {None} : c = Change(i, e, l, w)
  BY <1>5 DEF Change
<1>6. QED
  BY <1>0, <1>1, <1>2, <1>3, <1>4, <1>5

LEMMA ReceiveTyped ==
  ASSUME TypeInv, NEW r \in Requests, Receive(r)
  PROVE  SharedType' /\ OwnType' /\ Inserting'
<1>1. PICK c \in Inputs, formed \in BOOLEAN :
        /\ pc' = [pc EXCEPT ![r] = FirstStep[c.op]]
        /\ call' = [call EXCEPT ![r] = Normalised(c)]
        /\ valid' = [valid EXCEPT ![r] = formed]
        /\ answer' = [answer EXCEPT ![r] = NoAnswer]
  BY DEF Receive
<1>2. UNCHANGED <<shared, ctx, tries, hand>>
  BY DEF Receive
<1>3. FirstStep[c.op] \in Steps \ {"Insert"}
  BY InputTyped DEF FirstStep, Steps
<1>4. NoAnswer \in Answer
  BY DEF NoAnswer, Answer
<1>5. OwnType'
  BY <1>1, <1>2, <1>3, <1>4, InputTyped DEF TypeInv, TypeOK, OwnType
<1>6. Inserting'
  BY <1>1, <1>3, InputTyped DEF TypeInv, TypeOK, Inserting
<1>7. QED
  BY <1>2, <1>5, <1>6, SharedUnchanged DEF TypeInv

LEMMA RulesTyped ==
  ASSUME TypeInv, NEW r \in Requests,
         EmailRule(r) \/ NumberRule(r) \/ LeaderRule(r)
  PROVE  SharedType' /\ OwnType' /\ Inserting'
<1>1. UNCHANGED shared
  BY DEF EmailRule, NumberRule, LeaderRule
<1>2. SharedType'
  BY <1>1, SharedUnchanged DEF TypeInv
<1>3. {"NumberRule", "LeaderRule", "EmailRule", "Load", "Insert"}
        \subseteq Steps
  BY DEF Steps
<1> DEFINE T == IF call[r].leader \in Live(db)
                THEN Tracking(r, call[r].leader) ELSE ctx[r]
<1>4. T \in Table /\ ctx[r] \in Table
  BY CallTyped, TrackingTyped DEF TypeInv
<1>5. valid \in [Requests -> BOOLEAN]
  BY DEF TypeInv, TypeOK
<1>6. CASE EmailRule(r)
  <2>1. \/ Ruled(r, ctx[r], "NumberRule")
        \/ Ruled(r, ctx[r], "Load")
        \/ Finish(r, "bad", {})
    BY <1>5, <1>6 DEF EmailRule, Verdict, Judge, Ruled
  <2>2. QED
    BY <1>2, <1>3, <1>4, <2>1, RuledTyped, FinishTyped DEF Kinds
<1>7. CASE NumberRule(r)
  <2>1. Ruled(r, ctx[r], "LeaderRule")
    BY <1>5, <1>7 DEF NumberRule, Judge, Ruled
  <2>2. QED
    BY <1>2, <1>3, <1>4, <2>1, RuledTyped
<1>8. CASE LeaderRule(r)
  <2>1. \/ call[r].op = "add" /\ Ruled(r, T, "Insert")
        \/ Ruled(r, T, "EmailRule")
        \/ Finish(r, "bad", {})
    BY <1>5, <1>8 DEF LeaderRule, Verdict, Judge, Ruled
  <2> HIDE DEF T
  <2>2. QED
    BY <1>2, <1>3, <1>4, <2>1, RuledTyped, FinishTyped DEF Kinds
<1>9. QED
  BY <1>6, <1>7, <1>8

LEMMA AddTyped ==
  ASSUME TypeInv, NEW r \in Requests,
         InsertRejected(r) \/ Insert(r) \/ AddCacheGet(r) \/ AddReload(r)
  PROVE  SharedType' /\ OwnType' /\ Inserting'
<1> USE DEF Kinds
<1>1. {"AddCacheGet", "AddReload", "CacheSet"} \subseteq Steps \ {"Insert"}
  BY DEF Steps
<1>2. CASE InsertRejected(r)
  BY <1>2, FinishTyped, SharedUnchanged DEF InsertRejected, TypeInv
<1>3. CASE Insert(r)
  <2>1. SharedType'
    BY <1>3, InsertedTyped, MaxIdAssumption
       DEF Insert, SharedType, TypeInv, TypeOK, Ids, NewId
  <2>2. OwnType' /\ Inserting'
    BY <1>1, <1>3, InsertedTyped, ContinueTyped, UnacknowledgedTyped DEF Insert
  <2>3. QED
    BY <2>1, <2>2
<1>4. CASE AddCacheGet(r)
  BY <1>1, <1>4, CallTyped, FinishTyped, ContinueTyped, SharedUnchanged
     DEF AddCacheGet, TypeInv
<1>5. CASE AddReload(r)
  <2>1. SharedType'
    BY <1>5, SharedUnchanged DEF AddReload, TypeInv
  <2>2. ASSUME NEW i \in Find(db, call[r].key)
        PROVE  /\ Tracking(r, i) \in Table
               /\ {EntryOf(Tracking(r, i), i)} \in SUBSET Entry
    BY FindTyped, TrackingTyped, EntryTyped DEF TypeInv
  <2>3. OwnType' /\ Inserting'
    BY <1>1, <1>5, <2>2, CallTyped, ContinueTyped DEF AddReload
  <2>4. QED
    BY <2>1, <2>3
<1>6. QED
  BY <1>2, <1>3, <1>4, <1>5

LEMMA LookupTyped ==
  ASSUME TypeInv, NEW r \in Requests,
         \/ CacheGet(r) \/ ReadNone(r) \/ ReadOne(r) \/ ReadAll(r)
         \/ CacheSet(r)
  PROVE  SharedType' /\ OwnType' /\ Inserting'
<1> USE DEF Kinds
<1>1. {"Read", "CacheSet"} \subseteq Steps \ {"Insert"}
  BY DEF Steps
<1>2. CASE CacheGet(r)
  <2>1. Cached(call[r].key) \in SUBSET Entry
    BY CallTyped, CachedTyped DEF TypeInv
  <2>2. OwnType' /\ Inserting'
    BY <1>1, <1>2, <2>1, CallTyped, FinishTyped, ContinueTyped, CompareTyped
       DEF CacheGet
  <2>3. QED
    BY <1>2, <2>2, SharedUnchanged DEF CacheGet, TypeInv
<1>3. CASE ReadNone(r)
  <2>1. NotFound(call[r].op, call[r].key) \in Kinds
    BY DEF NotFound
  <2>2. QED
    BY <1>3, <2>1, FinishTyped, SharedUnchanged DEF ReadNone, TypeInv
<1>4. CASE ReadOne(r)
  <2>1. PICK i \in Find(db, call[r].key) :
          \/ call[r].op = "get" /\ Continue(r, "CacheSet", Tracking(r, i),
                                            {EntryOf(Tracking(r, i), i)})
          \/ call[r].op = "auth" /\ Compare(r, EntryOf(Tracking(r, i), i))
    BY <1>4 DEF ReadOne
  <2>2. /\ Tracking(r, i) \in Table
        /\ EntryOf(Tracking(r, i), i) \in Entry
        /\ {EntryOf(Tracking(r, i), i)} \in SUBSET Entry
    BY FindTyped, TrackingTyped, EntriesTyped DEF TypeInv
  <2>3. OwnType' /\ Inserting'
    BY <1>1, <2>1, <2>2, ContinueTyped, CompareTyped
  <2>4. QED
    BY <1>4, <2>3, SharedUnchanged DEF ReadOne, TypeInv
<1>5. CASE ReadAll(r)
  BY <1>1, <1>5, CallTyped, EntriesTyped, ContinueTyped, SharedUnchanged
     DEF ReadAll, TypeInv
<1>6. CASE CacheSet(r)
  <2>1. SharedType'
    BY <1>6, CallTyped, CachePutTyped DEF CacheSet, TypeInv
  <2>2. OwnType' /\ Inserting'
    BY <1>6, CallTyped, FinishTyped DEF CacheSet
  <2>3. QED
    BY <2>1, <2>2
<1>7. QED
  BY <1>2, <1>3, <1>4, <1>5, <1>6

LEMMA RemoveTyped ==
  ASSUME TypeInv, NEW r \in Requests,
         \/ Invalidate(r) \/ LoadNone(r) \/ LoadForDelete(r)
         \/ DeleteMissed(r) \/ Delete(r)
  PROVE  SharedType' /\ OwnType' /\ Inserting'
<1> USE DEF Kinds
<1>1. {"Load", "LeaderRule", "Delete"} \subseteq Steps \ {"Insert"}
  BY DEF Steps
<1>2. CASE Invalidate(r)
  <2>1. SharedType'
    BY <1>2, CallTyped, CachePutTyped DEF Invalidate, TypeInv
  <2>2. OwnType' /\ Inserting'
    BY <1>1, <1>2, CallTyped, ContinueTyped DEF Invalidate
  <2>3. QED
    BY <2>1, <2>2
<1>3. CASE LoadNone(r)
  <2>1. (IF call[r].op = "remove" THEN "notfound" ELSE "bad") \in Kinds
    OBVIOUS
  <2>2. QED
    BY <1>3, <2>1, FinishTyped, SharedUnchanged DEF LoadNone, TypeInv
<1>4. CASE LoadForDelete(r)
  <2>1. ASSUME NEW i \in Find(db, call[r].key)
        PROVE  /\ Tracking(r, i) \in Table
               /\ {EntryOf(Tracking(r, i), i)} \in SUBSET Entry
    BY FindTyped, TrackingTyped, EntryTyped DEF TypeInv
  <2>2. OwnType' /\ Inserting'
    BY <1>1, <1>4, <2>1, ContinueTyped DEF LoadForDelete
  <2>3. QED
    BY <1>4, <2>2, SharedUnchanged DEF LoadForDelete, TypeInv
<1>5. CASE DeleteMissed(r)
  BY <1>5, FinishTyped, SharedUnchanged DEF DeleteMissed, TypeInv
<1>6. CASE Delete(r)
  <2>1. SharedType'
    <3>1. PICK e \in hand[r] : db[e.id] # NoRow /\ db' = DeleteRow(db, e.id)
      BY <1>6 DEF Delete
    <3>2. e.id \in Live(db)
      BY <3>1, CallTyped DEF Entry, Live
    <3>3. db' \in Table
      BY <3>1, <3>2, CallTyped, DeleteRowTyped
    <3>4. QED
      BY <1>6, <3>3 DEF Delete, SharedType, TypeInv, TypeOK
  <2>2. OwnType' /\ Inserting'
    BY <1>6, CallTyped, FinishTyped, UnacknowledgedTyped DEF Delete
  <2>3. QED
    BY <2>1, <2>2
<1>7. QED
  BY <1>2, <1>3, <1>4, <1>5, <1>6

LEMMA UpdateTyped ==
  ASSUME TypeInv, NEW r \in Requests,
         \/ LoadForSave(r) \/ SaveMissed(r) \/ SaveRejected(r) \/ Save(r)
         \/ Reload(r)
  PROVE  SharedType' /\ OwnType' /\ Inserting'
<1> USE DEF Kinds
<1>1. {"Save", "Reload"} \subseteq Steps \ {"Insert"}
  BY DEF Steps
<1>2. CASE LoadForSave(r)
  <2>1. PICK i \in Find(db, call[r].key) :
          LET T == [Tracking(r, i) EXCEPT ![i] = Merge(call[r], @)]
          IN Continue(r, "Save", T, {EntryOf(T, i)})
    BY <1>2 DEF LoadForSave
  <2> DEFINE T == [Tracking(r, i) EXCEPT ![i] = Merge(call[r], @)]
  <2>2. i \in Live(db)
    BY FindTyped
  <2>3. T \in Table /\ i \in Live(T)
    <3>1. Merge(call[r], Tracking(r, i)[i]) \in Row
      BY <2>2, CallTyped, TrackingTyped, MergeTyped DEF TypeInv
    <3>2. QED
      BY <2>2, <3>1, TrackingTyped, NoRowAssumption
         DEF TypeInv, Table, Live
  <2>4. {EntryOf(T, i)} \in SUBSET Entry
    BY <2>3, EntryTyped
  <2> HIDE DEF T
  <2>5. OwnType' /\ Inserting'
    BY <1>1, <2>1, <2>3, <2>4, ContinueTyped DEF T
  <2>6. QED
    BY <1>2, <2>5, SharedUnchanged DEF LoadForSave, TypeInv
<1>3. CASE SaveMissed(r) \/ SaveRejected(r)
  BY <1>3, FinishTyped, SharedUnchanged DEF SaveMissed, SaveRejected, TypeInv
<1>4. CASE Save(r)
  <2>1. SharedType'
    <3>1. PICK e \in hand[r] : \E freed \in SUBSET Released(r, e) :
            /\ freed \cup {e.id} \subseteq Live(db)
            /\ db' = SavedTable(e, freed)
      BY <1>4 DEF Save
    <3>2. db' \in Table
      BY <3>1, CallTyped, SavedTyped, Zenon
    <3>3. QED
      BY <1>4, <3>2 DEF Save, SharedType, TypeInv, TypeOK
  <2>2. OwnType' /\ Inserting'
    BY <1>1, <1>4, CallTyped, ContinueTyped, UnacknowledgedTyped DEF Save
  <2>3. QED
    BY <2>1, <2>2
<1>5. CASE Reload(r)
  BY <1>5, CallTyped, FinishTyped, SharedUnchanged DEF Reload, TypeInv
<1>6. QED
  BY <1>2, <1>3, <1>4, <1>5

LEMMA RestTyped ==
  ASSUME TypeInv,
         \/ \E r \in Requests : Retry(r) \/ Abort(r)
         \/ \E key \in Keys : Expire(key)
         \/ Relink \/ RestartDb \/ UNCHANGED vars
  PROVE  SharedType' /\ OwnType' /\ Inserting'
<1> USE DEF TypeInv, TypeOK, Inserting
<1>1. ASSUME NEW r \in Requests, Retry(r)
      PROVE  SharedType' /\ OwnType' /\ Inserting'
  BY <1>1, BoundsAssumption, SharedUnchanged DEF Retry, OwnType
<1>2. ASSUME NEW r \in Requests, Abort(r)
      PROVE  SharedType' /\ OwnType' /\ Inserting'
  BY <1>2, FinishTyped, SharedUnchanged DEF Abort, Kinds
<1>3. CASE \E key \in Keys : Expire(key)
  BY <1>3 DEF Expire, SharedType, OwnType, own
<1>4. CASE Relink
  BY <1>4 DEF Relink, SharedType, OwnType, own
<1>5. CASE RestartDb
  BY <1>5 DEF RestartDb, Follows, SharedType, OwnType, own
<1>6. CASE UNCHANGED vars
  BY <1>6 DEF SharedType, OwnType, vars, own, shared
<1>7. QED
  BY <1>1, <1>2, <1>3, <1>4, <1>5, <1>6

LEMMA StepTyped == TypeInv /\ [Next]_vars => TypeInv'
<1> SUFFICES ASSUME TypeInv, [Next]_vars PROVE TypeInv'
  OBVIOUS
<1>1. SharedType' /\ OwnType' /\ Inserting'
  <2>1. ASSUME NEW r \in Requests, Receive(r) \/ Work(r) \/ Abort(r)
        PROVE  SharedType' /\ OwnType' /\ Inserting'
    BY <2>1, ReceiveTyped, RulesTyped, AddTyped, LookupTyped, RemoveTyped,
       UpdateTyped, RestTyped DEF Work
  <2>2. QED
    BY <2>1, RestTyped DEF Next
<1>2. QED
  BY <1>1 DEF TypeInv, TypeOK, SharedType, OwnType

\* Type correctness, with what it rests on.
LEMMA TypeInvariant == Spec => []TypeInv
BY InitTyped, StepTyped, PTL DEF Spec

\* Every variable always has its type: no step writes a half-built row, answers
\* with something else than employees, or counts its repeats past the bound.
THEOREM TypeCorrect == Spec => []TypeOK
<1>1. TypeInv => TypeOK
  BY DEF TypeInv
<1>2. QED
  BY <1>1, TypeInvariant, PTL

-----------------------------------------------------------------------------
(***************************************************************************)
(* Referential integrity.                                                  *)
(***************************************************************************)

\* Three actions write the table.
LEMMA DbChanges ==
  ASSUME [Next]_vars
  PROVE  UNCHANGED db \/ \E r \in Requests : Insert(r) \/ Save(r) \/ Delete(r)
<1>1. ASSUME NEW r \in Requests, Receive(r) \/ Work(r) \/ Abort(r)
      PROVE  UNCHANGED db \/ Insert(r) \/ Save(r) \/ Delete(r)
  BY <1>1
     DEF Receive, Work, Abort, EmailRule, NumberRule, LeaderRule,
         InsertRejected, AddCacheGet, AddReload, CacheGet, ReadNone, ReadOne,
         ReadAll, CacheSet, Invalidate, LoadNone, LoadForDelete, LoadForSave,
         DeleteMissed, SaveMissed, SaveRejected, Reload, Retry, shared
<1>2. QED
  BY <1>1 DEF Next, Expire, Relink, RestartDb, vars, shared

LEMMA StepReferential ==
  TypeInv /\ Referential /\ [Next]_vars => Referential'
<1> SUFFICES ASSUME TypeInv, Referential, [Next]_vars PROVE Referential'
  OBVIOUS
<1> USE DEF Referential
<1>1. CASE UNCHANGED db
  BY <1>1 DEF Consistent, LeadersExist, OneFollowerEach, Live
<1>2. ASSUME NEW r \in Requests, Insert(r) PROVE Referential'
  BY <1>2 DEF Insert
<1>3. ASSUME NEW r \in Requests, Save(r) PROVE Referential'
  BY <1>3 DEF Save
<1>4. ASSUME NEW r \in Requests, Delete(r) PROVE Referential'
  <2>1. PICK e \in hand[r] : db[e.id] # NoRow /\ db' = DeleteRow(db, e.id)
    BY <1>4 DEF Delete
  <2>2. e.id \in Live(db)
    BY <2>1, CallTyped DEF Entry, Live
  <2>3. QED
    BY <2>1, <2>2, CallTyped, CascadeConsistent
<1>5. QED
  BY <1>1, <1>2, <1>3, <1>4, DbChanges

\* The table always keeps its foreign key and its unique index: each leader is
\* there, and leads one employee, whatever the interleaving and the faults.
THEOREM ReferentialIntegrity == Spec => []Referential
<1>1. Init => Referential
  BY SeedsAssumption DEF Init, Referential
<1>2. QED
  BY <1>1, TypeInvariant, StepReferential, PTL DEF Spec

-----------------------------------------------------------------------------
(***************************************************************************)
(* An Id never comes to mean another employee, as long as the              *)
(* auto-increment counter is not set back (no restart of MySQL 5.7).       *)
(*                                                                         *)
(* OneEmployeePerId alone is not inductive: an INSERT could use an Id that *)
(* some cache entry or some context still shows.  Issued excludes that.    *)
(* A step may only show versions of employees that were on show before, or *)
(* the row it inserts; the step lemmas state this for a set K that holds   *)
(* what is on show and is closed under changing an employee's other fields.*)
(***************************************************************************)

\* Every Id on show was handed out by the counter.
Issued == \A s \in Sightings : s.id < nextId

IdentityInv == TypeInv /\ Issued /\ OneEmployeePerId

\* K holds everything on show: in the calls, and altogether.
OwnWithin(K) ==
  \A q \in Requests : /\ Entries(ctx[q]) \subseteq K
                     /\ hand[q] \subseteq K
                     /\ answer[q].data \subseteq K

Within(K) ==
  /\ Entries(db) \subseteq K
  /\ \A k \in Keys : redis[k] \subseteq K
  /\ OwnWithin(K)

\* With an employee K holds every version of it.
AllVersions(K) ==
  \A s \in Entry, t \in K : s.id = t.id /\ s.row.number = t.row.number => s \in K

LEMMA WithinSightings ==
  ASSUME NEW K
  PROVE  /\ Within(K) => Sightings \subseteq K
         /\ Within(K)' => Sightings' \subseteq K
         /\ Sightings \subseteq K => Within(K)
<1> DEFINE Cache == UNION {redis[k] : k \in Keys}
           Owned == UNION {OnShow(r) : r \in Requests}
<1>1. Sightings = Entries(db) \cup Cache \cup Owned
  BY DEF Sightings
<1>2. Sightings' = Entries(db)' \cup Cache' \cup Owned'
  BY DEF Sightings
<1>3. /\ \A s : s \in Cache <=> \E k \in Keys : s \in redis[k]
      /\ \A s : s \in Owned <=> \E q \in Requests : s \in OnShow(q)
  OBVIOUS
<1>4. /\ \A s : s \in Cache' <=> \E k \in Keys : s \in redis'[k]
      /\ \A s : s \in Owned' <=> \E q \in Requests : s \in OnShow(q)'
  OBVIOUS
<1> HIDE DEF Cache, Owned
<1>5. Within(K) => Sightings \subseteq K
  BY <1>1, <1>3 DEF Within, OwnWithin, OnShow
<1>6. Within(K)' => Sightings' \subseteq K
  BY <1>2, <1>4 DEF Within, OwnWithin, OnShow
<1>7. Sightings \subseteq K => Within(K)
  BY <1>1, <1>3 DEF Within, OwnWithin, OnShow
<1>8. QED
  BY <1>5, <1>6, <1>7

LEMMA NoEntries == Entries(EmptyTable) = {}
BY DEF Entries, EmptyTable, Live

LEMMA EntriesWithin ==
  ASSUME NEW K, NEW T
  PROVE  Entries(T) \subseteq K <=> \A i \in Live(T) : EntryOf(T, i) \in K
BY DEF Entries

\* Clearing an employee's leader makes another version of it.
LEMMA LeaderCleared ==
  ASSUME NEW row \in Row
  PROVE  /\ [row EXCEPT !.leader = None] \in Row
         /\ [row EXCEPT !.leader = None].number = row.number
BY DEF Row

LEMMA FinishWithin ==
  ASSUME TypeInv, NEW K, Within(K), NEW r \in Requests, NEW kind,
         NEW data \in SUBSET K, Finish(r, kind, data)
  PROVE  OwnWithin(K)'
BY NoEntries DEF Finish, Within, OwnWithin, TypeInv, TypeOK

LEMMA ContinueWithin ==
  ASSUME TypeInv, NEW K, Within(K), NEW r \in Requests, NEW step, NEW T,
         Entries(T) \subseteq K, NEW v \in SUBSET K, Continue(r, step, T, v)
  PROVE  OwnWithin(K)'
BY DEF Continue, Within, OwnWithin, TypeInv, TypeOK

LEMMA RuledWithin ==
  ASSUME TypeInv, NEW K, Within(K), NEW r \in Requests, NEW next, NEW T,
         Entries(T) \subseteq K, Ruled(r, T, next)
  PROVE  OwnWithin(K)'
BY DEF Ruled, Within, OwnWithin, TypeInv, TypeOK

LEMMA UnacknowledgedWithin ==
  ASSUME TypeInv, NEW K, Within(K), NEW r \in Requests, Unacknowledged(r)
  PROVE  OwnWithin(K)'
<1>1. CASE Finish(r, "error", {})
  BY <1>1, FinishWithin
<1>2. CASE UNCHANGED <<ctx, hand, answer>>
  BY <1>2 DEF Within, OwnWithin
<1>3. QED
  BY <1>1, <1>2 DEF Unacknowledged

LEMMA TrackingWithin ==
  ASSUME TypeInv, NEW K, Within(K), NEW r \in Requests, NEW i \in Live(db)
  PROVE  /\ Entries(Tracking(r, i)) \subseteq K
         /\ EntryOf(Tracking(r, i), i) \in K
         /\ {EntryOf(Tracking(r, i), i)} \in SUBSET K
<1>1. \A j \in Live(Tracking(r, i)) :
        \/ j \in Live(ctx[r]) /\ EntryOf(Tracking(r, i), j) = EntryOf(ctx[r], j)
        \/ j \in Live(db) /\ EntryOf(Tracking(r, i), j) = EntryOf(db, j)
  BY CallTyped DEF Tracking, Live, EntryOf, Table
<1>2. \A j \in Live(Tracking(r, i)) : EntryOf(Tracking(r, i), j) \in K
  BY <1>1, EntriesWithin DEF Within, OwnWithin
<1>3. i \in Live(Tracking(r, i))
  BY TrackingTyped DEF TypeInv
<1>4. QED
  BY <1>2, <1>3, EntriesWithin

LEMMA CallWithin ==
  ASSUME NEW K, Within(K), TypeInv, NEW r \in Requests
  PROVE  /\ hand[r] \in SUBSET K
         /\ Entries(ctx[r]) \subseteq K
         /\ Entries(db) \in SUBSET K
         /\ Cached(call[r].key) \in SUBSET K
         /\ {} \in SUBSET K
BY CallTyped DEF Within, OwnWithin, Cached

\* The shared part when nothing shared changes.
LEMMA SharedWithin ==
  ASSUME NEW K, Within(K), UNCHANGED <<db, redis>>
  PROVE  Entries(db') \subseteq K /\ \A k \in Keys : redis'[k] \subseteq K
BY DEF Within

-----------------------------------------------------------------------------
(***************************************************************************)
(* The steps, one group of actions per lemma.                              *)
(***************************************************************************)

LEMMA RulesWithin ==
  ASSUME TypeInv, NEW K, Within(K), NEW r \in Requests,
         EmailRule(r) \/ NumberRule(r) \/ LeaderRule(r)
  PROVE  Within(K)'
<1> DEFINE T == IF call[r].leader \in Live(db)
                THEN Tracking(r, call[r].leader) ELSE ctx[r]
<1>1. valid \in [Requests -> BOOLEAN]
  BY DEF TypeInv, TypeOK
<1>2. \/ \E next : Ruled(r, ctx[r], next) \/ Ruled(r, T, next)
      \/ Finish(r, "bad", {})
  BY <1>1 DEF EmailRule, NumberRule, LeaderRule, Verdict, Judge, Ruled
<1>3. Entries(T) \subseteq K /\ Entries(ctx[r]) \subseteq K
  BY CallWithin, TrackingWithin
<1>4. UNCHANGED shared
  BY DEF EmailRule, NumberRule, LeaderRule
<1> HIDE DEF T
<1>5. {} \in SUBSET K
  OBVIOUS
<1>6. OwnWithin(K)'
  <2>1. CASE Finish(r, "bad", {})
    BY <2>1, <1>5, FinishWithin
  <2>2. CASE \E next : Ruled(r, ctx[r], next)
    BY <2>2, <1>3, RuledWithin
  <2>3. CASE \E next : Ruled(r, T, next)
    BY <2>3, <1>3, RuledWithin
  <2>4. QED
    BY <1>2, <2>1, <2>2, <2>3
<1>7. QED
  BY <1>4, <1>6, SharedWithin DEF Within, shared

LEMMA LookupWithin ==
  ASSUME TypeInv, NEW K, Within(K), NEW r \in Requests,
         \/ InsertRejected(r) \/ AddCacheGet(r) \/ AddReload(r)
         \/ CacheGet(r) \/ ReadNone(r) \/ ReadOne(r) \/ ReadAll(r)
  PROVE  Within(K)'
<1>1. UNCHANGED shared
  BY DEF InsertRejected, AddCacheGet, AddReload, CacheGet, ReadNone, ReadOne,
         ReadAll
<1>2. ASSUME NEW i \in Find(db, call[r].key)
      PROVE  /\ Entries(Tracking(r, i)) \subseteq K
             /\ EntryOf(Tracking(r, i), i) \in K
             /\ {EntryOf(Tracking(r, i), i)} \in SUBSET K
  BY FindTyped, TrackingWithin
<1>3. \A e \in K : Compare(r, e) =>
        \E kind : \E data \in SUBSET K : Finish(r, kind, data)
  BY CallWithin DEF Compare
<1>4. \/ \E kind : \E data \in SUBSET K : Finish(r, kind, data)
      \/ \E step, T : \E v \in SUBSET K :
           Entries(T) \subseteq K /\ Continue(r, step, T, v)
  <2>1. CASE InsertRejected(r) \/ AddCacheGet(r) \/ ReadNone(r)
    BY <2>1, CallWithin DEF InsertRejected, AddCacheGet, ReadNone
  <2>2. CASE AddReload(r)
    BY <2>2, <1>2, CallWithin DEF AddReload
  <2>3. CASE CacheGet(r)
    BY <2>3, <1>3, CallWithin DEF CacheGet
  <2>4. CASE ReadOne(r)
    BY <2>4, <1>2, <1>3 DEF ReadOne
  <2>5. CASE ReadAll(r)
    BY <2>5, CallWithin DEF ReadAll
  <2>6. QED
    BY <2>1, <2>2, <2>3, <2>4, <2>5
<1>5. QED
  BY <1>1, <1>4, FinishWithin, ContinueWithin, SharedWithin DEF Within, shared

LEMMA CacheWithin ==
  ASSUME TypeInv, NEW K, Within(K), NEW r \in Requests,
         CacheSet(r) \/ Invalidate(r)
  PROVE  Within(K)'
<1>1. /\ db' = db
      /\ \/ CachePut(call[r].key, hand[r])
         \/ CachePut(call[r].key, {})
         \/ redis' = redis
  BY DEF CacheSet, Invalidate
<1>2. \A k \in Keys : redis'[k] \subseteq K
  BY <1>1, CallWithin DEF CachePut, Within, OwnWithin, TypeInv, TypeOK
<1>3. \/ \E kind : \E data \in SUBSET K : Finish(r, kind, data)
      \/ \E step, T : \E v \in SUBSET K :
           Entries(T) \subseteq K /\ Continue(r, step, T, v)
  BY CallWithin DEF CacheSet, Invalidate
<1>4. QED
  BY <1>1, <1>2, <1>3, FinishWithin, ContinueWithin DEF Within

LEMMA LoadWithin ==
  ASSUME TypeInv, NEW K, Within(K), AllVersions(K), NEW r \in Requests,
         \/ LoadNone(r) \/ LoadForDelete(r) \/ LoadForSave(r)
         \/ DeleteMissed(r) \/ SaveMissed(r) \/ SaveRejected(r) \/ Reload(r)
  PROVE  Within(K)'
<1>1. UNCHANGED shared
  BY DEF LoadNone, LoadForDelete, LoadForSave, DeleteMissed, SaveMissed,
         SaveRejected, Reload
<1>2. \/ \E kind : \E data \in SUBSET K : Finish(r, kind, data)
      \/ \E step, T : \E v \in SUBSET K :
           Entries(T) \subseteq K /\ Continue(r, step, T, v)
  <2>1. CASE \/ LoadNone(r) \/ DeleteMissed(r) \/ SaveMissed(r)
             \/ SaveRejected(r) \/ Reload(r)
    BY <2>1, CallWithin
       DEF LoadNone, DeleteMissed, SaveMissed, SaveRejected, Reload
  <2>2. CASE LoadForDelete(r)
    BY <2>2, FindTyped, TrackingWithin DEF LoadForDelete
  <2>3. CASE LoadForSave(r)
    <3>1. PICK i \in Find(db, call[r].key) :
            LET T == [Tracking(r, i) EXCEPT ![i] = Merge(call[r], @)]
            IN Continue(r, "Save", T, {EntryOf(T, i)})
      BY <2>3 DEF LoadForSave
    <3> DEFINE A == Tracking(r, i)
               T == [A EXCEPT ![i] = Merge(call[r], @)]
    <3>2. i \in Live(db) /\ i \in Ids
      BY FindTyped DEF Live
    <3>3. A \in Table /\ A[i] \in Row /\ i \in Live(A)
      BY <3>2, TrackingTyped DEF TypeInv
    <3>4. Entries(A) \subseteq K /\ EntryOf(A, i) \in K
      BY <3>2, TrackingWithin
    <3> HIDE DEF A
    <3>5. /\ T[i] \in Row
          /\ T[i].number = A[i].number
          /\ \A j \in Ids \ {i} : T[j] = A[j]
      BY <3>2, <3>3, CallTyped, MergeTyped DEF Table
    <3> HIDE DEF T
    <3>6. EntryOf(T, i) \in K
      BY <3>2, <3>3, <3>4, <3>5 DEF AllVersions, Entry, EntryOf
    <3>7. \A j \in Live(T) : EntryOf(T, j) \in K
      BY <3>4, <3>5, <3>6, EntriesWithin DEF EntryOf, Live
    <3>8. Entries(T) \subseteq K /\ {EntryOf(T, i)} \in SUBSET K
      BY <3>6, <3>7, EntriesWithin
    <3>9. Continue(r, "Save", T, {EntryOf(T, i)})
      BY <3>1 DEF T, A
    <3>10. QED
      BY <3>8, <3>9
  <2>4. QED
    BY <2>1, <2>2, <2>3
<1>3. QED
  BY <1>1, <1>2, FinishWithin, ContinueWithin, SharedWithin DEF Within, shared

LEMMA DeleteWithin ==
  ASSUME TypeInv, NEW K, Within(K), NEW r \in Requests, Delete(r)
  PROVE  Within(K)'
<1>1. PICK e \in hand[r] : db[e.id] # NoRow /\ db' = DeleteRow(db, e.id)
  BY DEF Delete
<1>2. e.id \in Live(db)
  BY <1>1, CallTyped DEF Entry, Live
<1>3. \A j \in Live(db') : j \in Live(db) /\ db'[j] = db[j]
  BY <1>1, <1>2, CallTyped, DeleteRowTyped DEF Live
<1>4. Entries(db') \subseteq K
  BY <1>3, EntriesWithin DEF EntryOf, Within
<1>5. OwnWithin(K)'
  BY CallWithin, FinishWithin, UnacknowledgedWithin DEF Delete
<1>6. redis' = redis
  BY DEF Delete
<1>7. QED
  BY <1>4, <1>5, <1>6 DEF Within

LEMMA SaveWithin ==
  ASSUME TypeInv, NEW K, Within(K), AllVersions(K), NEW r \in Requests, Save(r)
  PROVE  Within(K)'
<1>1. PICK e \in hand[r] : \E freed \in SUBSET Released(r, e) :
        /\ freed \cup {e.id} \subseteq Live(db)
        /\ db' = SavedTable(e, freed)
  BY DEF Save
<1>2. PICK freed \in SUBSET Released(r, e) :
        /\ freed \cup {e.id} \subseteq Live(db)
        /\ db' = SavedTable(e, freed)
  BY <1>1
<1>3. e \in Entry /\ e \in K
  BY CallTyped, CallWithin
<1>4. e = EntryOf(db', e.id)
  <2>1. e.id \in Ids /\ db'[e.id] = e.row
    BY <1>2, <1>3 DEF SavedTable, Entry
  <2>2. QED
    BY <1>3, <2>1 DEF Entry, EntryOf
<1>5. ASSUME NEW j \in freed, j # e.id PROVE EntryOf(db', j) \in K
  <2>1. j \in Live(db) /\ j \in Ids
    BY <1>2, <1>5 DEF Live
  <2>2. db[j] \in Row /\ EntryOf(db, j) \in K
    BY <2>1, CallTyped, EntriesWithin DEF Within, Table, Live
  <2>3. db'[j] = [db[j] EXCEPT !.leader = None]
    BY <1>2, <1>5, <2>1 DEF SavedTable
  <2>4. db'[j] \in Row /\ db'[j].number = db[j].number
    BY <2>2, <2>3, LeaderCleared, Zenon
  <2>5. QED
    BY <2>1, <2>2, <2>4 DEF AllVersions, Entry, EntryOf
<1>6. ASSUME NEW j \in Live(db'), j \notin freed, j # e.id
      PROVE  EntryOf(db', j) \in K
  <2>1. j \in Ids /\ db'[j] = db[j]
    BY <1>2, <1>6 DEF SavedTable, Live
  <2>2. j \in Live(db)
    BY <1>6, <2>1 DEF Live
  <2>3. QED
    BY <2>1, <2>2, EntriesWithin DEF Within, EntryOf
<1>7. Entries(db') \subseteq K
  BY <1>3, <1>4, <1>5, <1>6, EntriesWithin
<1>8. OwnWithin(K)'
  BY CallWithin, ContinueWithin, UnacknowledgedWithin DEF Save
<1>9. redis' = redis
  BY DEF Save
<1>10. QED
  BY <1>7, <1>8, <1>9 DEF Within

\* An INSERT shows one row that was not there, under the fresh Id.
LEMMA InsertWithin ==
  ASSUME TypeInv, NEW K, Within(K), NEW r \in Requests, Insert(r),
         EntryOf(InsertedTable(r), NewId) \in K
  PROVE  Within(K)'
<1> DEFINE new == NewRow(call[r])
           C == [ctx[r] EXCEPT ![NewId] = new]
<1>1. NewId \in Ids /\ new \in Row /\ pc[r] = "Insert"
  BY InsertedTyped DEF Insert
<1>2. /\ db' = [db EXCEPT ![NewId] = new]
      /\ redis' = redis
      /\ Continue(r, "AddCacheGet", C, {}) \/ Unacknowledged(r)
  BY DEF Insert, InsertedTable
<1> HIDE DEF new
<1>3. EntryOf(db', NewId) \in K /\ EntryOf(C, NewId) \in K
  BY <1>1, CallTyped DEF EntryOf, InsertedTable, Table, new, Insert
<1>4. \A j \in Live(db') : j # NewId => EntryOf(db', j) \in K
  BY <1>2, CallTyped, EntriesWithin DEF Within, EntryOf, Live, Table
<1>5. \A j \in Live(C) : j # NewId => EntryOf(C, j) \in K
  BY CallTyped, CallWithin, EntriesWithin DEF EntryOf, Live, Table
<1>6. Entries(db') \subseteq K /\ Entries(C) \subseteq K
  BY <1>3, <1>4, <1>5, EntriesWithin
<1> HIDE DEF C
<1>7. OwnWithin(K)'
  BY <1>2, <1>6, CallWithin, ContinueWithin, UnacknowledgedWithin
<1>8. QED
  BY <1>2, <1>6, <1>7 DEF Within

LEMMA RestWithin ==
  ASSUME TypeInv, NEW K, Within(K),
         \/ \E r \in Requests : Receive(r) \/ Retry(r) \/ Abort(r)
         \/ \E key \in Keys : Expire(key)
         \/ Relink \/ RestartDb \/ UNCHANGED vars
  PROVE  Within(K)'
<1>1. ASSUME NEW r \in Requests, Receive(r) PROVE Within(K)'
  <2>1. /\ UNCHANGED <<db, redis, ctx, hand>>
        /\ answer' = [answer EXCEPT ![r] = NoAnswer]
    BY <1>1 DEF Receive, shared
  <2>2. QED
    BY <2>1 DEF Within, OwnWithin, NoAnswer, TypeInv, TypeOK
<1>2. ASSUME NEW r \in Requests, Retry(r) PROVE Within(K)'
  BY <1>2 DEF Retry, shared, Within, OwnWithin
<1>3. ASSUME NEW r \in Requests, Abort(r) PROVE Within(K)'
  <2>1. OwnWithin(K)'
    BY <1>3, FinishWithin, CallWithin DEF Abort
  <2>2. QED
    BY <1>3, <2>1 DEF Abort, shared, Within
<1>4. ASSUME NEW key \in Keys, Expire(key) PROVE Within(K)'
  BY <1>4 DEF Expire, own, Within, OwnWithin, TypeInv, TypeOK
<1>5. CASE Relink \/ RestartDb \/ UNCHANGED vars
  BY <1>5 DEF Relink, RestartDb, vars, shared, own, Within, OwnWithin
<1>6. QED
  BY <1>1, <1>2, <1>3, <1>4, <1>5

-----------------------------------------------------------------------------
(***************************************************************************)
(* The invariant.                                                          *)
(***************************************************************************)

\* Every version of every employee on show, and of one that gets Id n.
Known == {s \in Entry :
            \E t \in Sightings : s.id = t.id /\ s.row.number = t.row.number}
Newcomer(n, number) == {s \in Entry : s.id = n /\ s.row.number = number}

LEMMA SightingsTyped == TypeInv => Sightings \subseteq Entry
<1> SUFFICES ASSUME TypeInv PROVE Sightings \subseteq Entry
  OBVIOUS
<1>1. Within(Entry)
  BY EntriesTyped DEF Within, OwnWithin, TypeInv, TypeOK, Answer
<1>2. QED
  BY <1>1, WithinSightings

LEMMA KnownCloses ==
  ASSUME TypeInv
  PROVE  /\ Sightings \subseteq Known
         /\ \A n, number : AllVersions(Known \cup Newcomer(n, number))
         /\ AllVersions(Known)
BY SightingsTyped DEF Known, Newcomer, AllVersions

\* What a step without INSERT shows was known before.
LEMMA KnownStep ==
  ASSUME TypeInv, [Next]_vars, \A r \in Requests : ~Insert(r),
         NEW K, K = Known
  PROVE  Sightings' \subseteq K
<1>1. Within(K) /\ AllVersions(K)
  BY KnownCloses, WithinSightings
<1>2. ASSUME NEW r \in Requests, Work(r) PROVE Within(K)'
  BY <1>1, <1>2, RulesWithin, LookupWithin, CacheWithin, LoadWithin,
     DeleteWithin, SaveWithin, RestWithin DEF Work
<1>3. Within(K)'
  BY <1>1, <1>2, RestWithin DEF Next
<1>4. QED
  BY <1>3, WithinSightings

\* What an INSERT shows besides is the one row it inserts.
LEMMA NewcomerStep ==
  ASSUME TypeInv, NEW r \in Requests, Insert(r),
         NEW K, K = Known \cup Newcomer(NewId, call[r].number)
  PROVE  Sightings' \subseteq K
<1>1. Within(K)
  BY KnownCloses, WithinSightings
<1>2. NewId \in Ids /\ NewRow(call[r]) \in Row
  BY InsertedTyped DEF Insert
<1>3. InsertedTable(r)[NewId] = NewRow(call[r])
  BY <1>2, CallTyped DEF InsertedTable, Table
<1>4. NewRow(call[r]).number = call[r].number
  BY DEF NewRow
<1>5. EntryOf(InsertedTable(r), NewId) \in K
  BY <1>2, <1>3, <1>4 DEF EntryOf, Entry, Newcomer
<1>6. QED
  BY <1>1, <1>5, InsertWithin, WithinSightings

\* Only a restart sets the counter back.
LEMMA CounterGrows ==
  ASSUME [Next]_vars, "restart" \notin Faults
  PROVE  UNCHANGED nextId \/ \E r \in Requests : Insert(r)
<1>1. ASSUME NEW r \in Requests, Receive(r) \/ Work(r) \/ Abort(r), ~Insert(r)
      PROVE  UNCHANGED nextId
  BY <1>1
     DEF Receive, Work, Abort, EmailRule, NumberRule, LeaderRule,
         InsertRejected, AddCacheGet, AddReload, CacheGet, ReadNone, ReadOne,
         ReadAll, CacheSet, Invalidate, LoadNone, LoadForDelete, LoadForSave,
         DeleteMissed, Delete, SaveMissed, SaveRejected, Save, Reload, Retry,
         shared
<1>2. QED
  BY <1>1 DEF Next, Expire, Relink, RestartDb, vars, shared

LEMMA InitIdentity == Init => IdentityInv
<1> SUFFICES ASSUME Init PROVE IdentityInv
  OBVIOUS
<1>1. TypeInv
  BY InitTyped
<1>2. PICK K : K = Entries(db)
  OBVIOUS
<1>3. Within(K)
  BY <1>2, NoEntries DEF Init, NoAnswer, Within, OwnWithin
<1>4. Sightings \subseteq Entries(db)
  BY <1>2, <1>3, WithinSightings
<1>5. Issued
  BY <1>4 DEF Issued, Entries, EntryOf, Init, Follows
<1>6. OneEmployeePerId
  BY <1>4 DEF OneEmployeePerId, Entries, EntryOf
<1>7. QED
  BY <1>1, <1>5, <1>6 DEF IdentityInv

LEMMA StepIdentity ==
  ASSUME "restart" \notin Faults, IdentityInv, [Next]_vars
  PROVE  IdentityInv'
<1> USE DEF IdentityInv
<1>1. TypeInv'
  BY StepTyped
<1>2. nextId \in Int /\ Sightings \subseteq Entry
  BY MaxIdAssumption, SightingsTyped DEF TypeInv, TypeOK
<1>3. PICK K : K = Known
  OBVIOUS
<1>4. /\ \A s \in K : s.id < nextId
      /\ \A s, t \in K : s.id = t.id => s.row.number = t.row.number
  BY <1>3 DEF Known, Issued, OneEmployeePerId
<1>5. CASE \A r \in Requests : ~Insert(r)
  <2>1. Sightings' \subseteq K /\ nextId' = nextId
    BY <1>3, <1>5, KnownStep, CounterGrows
  <2>2. QED
    BY <1>1, <1>4, <2>1 DEF Issued, OneEmployeePerId
<1>6. ASSUME NEW r \in Requests, Insert(r) PROVE IdentityInv'
  <2>1. PICK N : N = Newcomer(NewId, call[r].number)
    OBVIOUS
  <2>2. Sightings' \subseteq K \cup N
    BY <1>3, <1>6, <2>1, NewcomerStep
  <2>3. /\ \A s \in N : s.id = nextId
        /\ \A s, t \in N : s.row.number = t.row.number
    BY <2>1 DEF Newcomer, NewId
  <2>4. nextId' = nextId + 1
    BY <1>6 DEF Insert, NewId
  <2>5. K \subseteq Entry
    BY <1>3 DEF Known
  <2>6. Issued'
    BY <1>2, <1>4, <2>2, <2>3, <2>4, <2>5 DEF Issued, Entry, Ids
  <2>7. OneEmployeePerId'
    BY <1>2, <1>4, <2>2, <2>3, <2>5 DEF OneEmployeePerId, Entry, Ids
  <2>8. QED
    BY <1>1, <2>6, <2>7
<1>7. QED
  BY <1>5, <1>6

LEMMA IdentityInvariant ==
  ASSUME "restart" \notin Faults
  PROVE  Spec => []IdentityInv
<1>1. IdentityInv /\ [Next]_vars => IdentityInv'
  BY StepIdentity
<1>2. QED
  BY <1>1, InitIdentity, PTL DEF Spec

\* As long as MySQL does not restart, an Id is one employee for ever: nothing that
\* the table, the cache, a running call or an answer shows under an Id is another
\* employee's, however stale it is, whatever the interleaving and the faults.
THEOREM IdIsOneEmployee ==
  ASSUME "restart" \notin Faults
  PROVE  Spec => []OneEmployeePerId
<1>1. IdentityInv => OneEmployeePerId
  BY DEF IdentityInv
<1>2. QED
  BY <1>1, IdentityInvariant, PTL

\* The action of IdentityKept.
RowsKept ==
  \A i \in Ids : db'[i] # NoRow =>
    \/ db[i] # NoRow /\ db'[i].number = db[i].number
    \/ db[i] = NoRow /\ i = nextId /\ nextId' = i + 1

LEMMA InsertKeepsRows ==
  ASSUME IdentityInv, NEW r \in Requests, Insert(r)
  PROVE  RowsKept
<1>1. NewId \in Ids /\ NewId = nextId /\ nextId \in Int
  BY InsertedTyped, MaxIdAssumption
     DEF Insert, IdentityInv, NewId, TypeInv, TypeOK
<1>2. db[NewId] = NoRow
  <2>1. SUFFICES ASSUME NewId \in Live(db) PROVE FALSE
    BY <1>1 DEF Live
  <2>2. EntryOf(db, NewId) \in Sightings
    BY <2>1 DEF Sightings, Entries
  <2>3. QED
    BY <1>1, <2>2 DEF IdentityInv, Issued, EntryOf
<1>3. db' = [db EXCEPT ![NewId] = NewRow(call[r])] /\ nextId' = NewId + 1
  BY DEF Insert, InsertedTable
<1>4. QED
  BY <1>1, <1>2, <1>3, CallTyped DEF RowsKept, IdentityInv, Table

LEMMA SaveKeepsRows ==
  ASSUME IdentityInv, NEW r \in Requests, Save(r)
  PROVE  RowsKept
<1>1. PICK e \in hand[r] : \E freed \in SUBSET Released(r, e) :
        /\ freed \cup {e.id} \subseteq Live(db)
        /\ db' = SavedTable(e, freed)
  BY DEF Save
<1>2. PICK freed \in SUBSET Released(r, e) :
        /\ freed \cup {e.id} \subseteq Live(db)
        /\ db' = SavedTable(e, freed)
  BY <1>1
<1>3. e.row.number = db[e.id].number
  <2>1. e \in Sightings
    BY DEF Sightings, OnShow
  <2>2. EntryOf(db, e.id) \in Sightings
    BY <1>2 DEF Sightings, Entries
  <2>3. QED
    BY <2>1, <2>2 DEF IdentityInv, OneEmployeePerId, EntryOf
<1>4. \A j \in freed : [db[j] EXCEPT !.leader = None].number = db[j].number
  BY <1>2, CallTyped, LeaderCleared DEF IdentityInv, Live, Table
<1>5. ASSUME NEW j \in Ids, db'[j] # NoRow
      PROVE  db[j] # NoRow /\ db'[j].number = db[j].number
  <2>1. CASE j = e.id
    BY <1>2, <1>3, <2>1 DEF SavedTable, Live
  <2>2. CASE j # e.id /\ j \in freed
    BY <1>2, <1>4, <2>2 DEF SavedTable, Live
  <2>3. CASE j # e.id /\ j \notin freed
    BY <1>2, <1>5, <2>3 DEF SavedTable
  <2>4. QED
    BY <2>1, <2>2, <2>3
<1>6. QED
  BY <1>5 DEF RowsKept

LEMMA DeleteKeepsRows ==
  ASSUME IdentityInv, NEW r \in Requests, Delete(r)
  PROVE  RowsKept
<1>1. PICK e \in hand[r] : db[e.id] # NoRow /\ db' = DeleteRow(db, e.id)
  BY DEF Delete
<1>2. e.id \in Live(db)
  BY <1>1, CallTyped DEF IdentityInv, Entry, Live
<1>3. \A j \in Ids : db'[j] \in {db[j], NoRow}
  BY <1>1, <1>2, CallTyped, DeleteRowTyped DEF IdentityInv
<1>4. QED
  BY <1>3 DEF RowsKept

\* As long as MySQL does not restart, no step revives a removed employee or changes
\* an employee number: not the UPDATE of a stale context, not a repeated INSERT.
THEOREM RowsAreKept ==
  ASSUME "restart" \notin Faults
  PROVE  Spec => IdentityKept
<1>1. IdentityInv /\ [Next]_vars => [RowsKept]_vars
  <2> SUFFICES ASSUME IdentityInv, [Next]_vars PROVE RowsKept
    OBVIOUS
  <2>1. CASE UNCHANGED db
    BY <2>1 DEF RowsKept
  <2>2. QED
    BY <2>1, InsertKeepsRows, SaveKeepsRows, DeleteKeepsRows, DbChanges
<1>2. QED
  BY <1>1, IdentityInvariant, PTL DEF Spec, IdentityKept, RowsKept
=============================================================================
