------------------------ MODULE EmployeeSerial_proofs ------------------------
(***************************************************************************)
(* What holds while calls come one at a time: the validators keep          *)
(* addresses and numbers apart, and the EmployeeId keys follow the table.  *)
(*                                                                         *)
(* Both rest on Vetting: what the one call has found out so far, its       *)
(* verdicts and the rows it tracks, is still so, since nobody else writes. *)
(***************************************************************************)
EXTENDS EmployeeAnswers_proofs

\* Uniqueness of one table.
Apart(T) ==
  \A i, j \in Live(T) :
    i # j => /\ T[i].number # T[j].number
             /\ T[i].email # T[j].email \/ T[i].email = Blank

FreshEmail(c, T) ==
  c.email \in {None, Blank} \/ Find(T, <<"email", c.email>>) = {}

FreshNumber(c, T) == Find(T, <<"badge", c.number>>) = {}

\* The row an update is about to write: no one else's, with what it assigns.
Prepared(c, X, T, e) ==
  /\ e.id \in Live(T)
  /\ c.key = <<"id", e.id>>
  /\ e.row = Merge(c, T[e.id])
  /\ \A j \in Ids \ {e.id} : X[j] \in {NoRow, T[j]}

\* A request at step p, with its call, context, local variable and verdict so
\* far, on the table T.
Vetted(p, c, X, h, v, T) ==
  /\ p = "NumberRule" /\ v => FreshEmail(c, T)
  /\ p = "LeaderRule" /\ c.op = "add" /\ v => FreshEmail(c, T) /\ FreshNumber(c, T)
  /\ p = "Insert" => FreshEmail(c, T) /\ FreshNumber(c, T)
  /\ p \in {"Load", "Save"} /\ c.op = "update" => FreshEmail(c, T)
  /\ p \in {"EmailRule", "NumberRule", "LeaderRule", "Invalidate", "Load"} =>
       Mirrors(X, T)
  /\ p = "CacheSet" /\ c.key \notin EmailKeys =>
       \A e \in h : e.id \in Live(T) /\ e.row = T[e.id] /\ X[e.id] = T[e.id]
  /\ p = "Save" => \A e \in h : Prepared(c, X, T, e)

Vetting ==
  \A r \in Requests : Vetted(pc[r], call[r], ctx[r], hand[r], valid[r], db)

SerialInv == AnswerInv /\ Vetting /\ Apart(db)

LEMMA ApartIsUnique == Apart(db) => SerialUniqueness
BY DEF Apart, SerialUniqueness, UniqueEmails, UniqueNumbers

\* What a rule that found nothing says of the rows.
LEMMA FoundNone ==
  ASSUME NEW c, NEW T, NEW i \in Live(T)
  PROVE  /\ FreshEmail(c, T) => c.email \in {None, Blank} \/ T[i].email # c.email
         /\ FreshNumber(c, T) => T[i].number # c.number
<1>1. /\ <<"email", T[i].email>> \in FiledUnder(EntryOf(T, i))
      /\ <<"badge", T[i].number>> \in FiledUnder(EntryOf(T, i))
  BY DEF FiledUnder, EntryOf
<1>2. /\ i \in Find(T, <<"email", T[i].email>>)
      /\ i \in Find(T, <<"badge", T[i].number>>)
  BY <1>1 DEF Find
<1>3. QED
  BY <1>2 DEF FreshEmail, FreshNumber

-----------------------------------------------------------------------------
(***************************************************************************)
(* The ways a request goes on, with no one beside it.                      *)
(***************************************************************************)

LEMMA VettedAfter ==
  ASSUME OneAtATime, NEW r \in Requests,
         Vetted(pc'[r], call'[r], ctx'[r], hand'[r], valid'[r], db')
  PROVE  Vetting'
BY DEF OneAtATime, Vetting

LEMMA FinishVetted ==
  ASSUME OneAtATime, TypeInv, NEW r \in Requests, NEW kind, NEW data,
         Finish(r, kind, data)
  PROVE  Vetting'
<1>1. pc'[r] = "idle"
  BY DEF Finish, TypeInv, TypeOK
<1>2. Vetted(pc'[r], call'[r], ctx'[r], hand'[r], valid'[r], db')
  BY <1>1 DEF Vetted
<1>3. QED
  BY <1>2, VettedAfter

LEMMA ContinueVetted ==
  ASSUME OneAtATime, TypeInv, NEW r \in Requests, NEW step, NEW T, NEW v,
         Continue(r, step, T, v),
         Vetted(step, call[r], T, v, valid[r], db')
  PROVE  Vetting'
<1>1. /\ pc'[r] = step /\ call'[r] = call[r] /\ ctx'[r] = T
      /\ hand'[r] = v /\ valid'[r] = valid[r]
  BY DEF Continue, TypeInv, TypeOK
<1>2. QED
  BY <1>1, VettedAfter

LEMMA JudgeVetted ==
  ASSUME OneAtATime, TypeInv, NEW r \in Requests, NEW ok, NEW T, NEW next,
         Judge(r, ok, T, next),
         Vetted(next, call[r], T, hand[r], valid[r] /\ ok, db')
  PROVE  Vetting'
<1>1. /\ pc'[r] = next /\ call'[r] = call[r] /\ ctx'[r] = T
      /\ hand'[r] = hand[r] /\ valid'[r] = (valid[r] /\ ok)
  BY DEF Judge, TypeInv, TypeOK
<1>2. QED
  BY <1>1, VettedAfter

-----------------------------------------------------------------------------
(***************************************************************************)
(* The steps that leave the table alone.                                   *)
(***************************************************************************)

LEMMA ReceiveVetted ==
  ASSUME OneAtATime, AnswerInv, NEW r \in Requests, Receive(r)
  PROVE  Vetting'
<1>1. PICK c \in Inputs :
        /\ pc' = [pc EXCEPT ![r] = FirstStep[c.op]]
        /\ call' = [call EXCEPT ![r] = Normalised(c)]
  BY DEF Receive
<1>2. pc'[r] = FirstStep[c.op] /\ UNCHANGED <<db, ctx>> /\ pc[r] = "idle"
  BY <1>1 DEF Receive, AnswerInv, TypeInv, TypeOK, shared
<1>3. ctx'[r] = EmptyTable
  BY <1>2 DEF AnswerInv, InStep, Reading
<1>4. FirstStep[c.op] \in {"CacheGet", "EmailRule", "Invalidate"}
  BY InputKeyed DEF FirstStep
<1>5. Mirrors(EmptyTable, db')
  BY DEF Mirrors, EmptyTable
<1>6. Vetted(pc'[r], call'[r], ctx'[r], hand'[r], valid'[r], db')
  BY <1>2, <1>3, <1>4, <1>5 DEF Vetted
<1>7. QED
  BY <1>6, VettedAfter

LEMMA RulesVetted ==
  ASSUME OneAtATime, AnswerInv, Vetting, NEW r \in Requests,
         EmailRule(r) \/ NumberRule(r) \/ LeaderRule(r)
  PROVE  Vetting'
<1> DEFINE c == call[r]
<1>1. db' = db
  BY DEF EmailRule, NumberRule, LeaderRule, shared
<1>2. TypeInv /\ ctx[r] \in Table /\ Reading(pc[r], c, ctx[r], hand[r])
  BY CallTyped DEF AnswerInv, InStep
<1>3. Vetted(pc[r], c, ctx[r], hand[r], valid[r], db)
  BY DEF Vetting
<1>4. ASSUME Finish(r, "bad", {}) PROVE Vetting'
  BY <1>2, <1>4, FinishVetted
<1>5. CASE EmailRule(r)
  <2>1. EmailFree(r) => FreshEmail(c, db)
    BY DEF EmailFree, FreshEmail
  <2>2. Mirrors(ctx[r], db)
    BY <1>3, <1>5 DEF Vetted, EmailRule
  <2>3. CASE c.op = "add" /\ Judge(r, EmailFree(r), ctx[r], "NumberRule")
    <3>1. Vetted("NumberRule", c, ctx[r], hand[r], valid[r] /\ EmailFree(r), db)
      BY <2>1, <2>2 DEF Vetted
    <3>2. QED
      BY <1>1, <1>2, <2>3, <3>1, JudgeVetted
  <2>4. CASE /\ c.op = "update" /\ EmailFree(r)
             /\ Judge(r, EmailFree(r), ctx[r], "Load")
    <3>1. Vetted("Load", c, ctx[r], hand[r], valid[r] /\ EmailFree(r), db)
      BY <2>1, <2>2, <2>4 DEF Vetted
    <3>2. QED
      BY <1>1, <1>2, <2>4, <3>1, JudgeVetted
  <2>5. QED
    BY <1>4, <1>5, <2>3, <2>4 DEF EmailRule, Verdict
<1>6. CASE NumberRule(r)
  <2>1. NumberFree(r) => FreshNumber(c, db)
    BY DEF NumberFree, FreshNumber
  <2>2. pc[r] = "NumberRule" /\ Judge(r, NumberFree(r), ctx[r], "LeaderRule")
    BY <1>6 DEF NumberRule
  <2>3. valid[r] => FreshEmail(c, db)
    BY <1>3, <2>2 DEF Vetted
  <2>4. Mirrors(ctx[r], db)
    BY <1>3, <2>2 DEF Vetted
  <2>5. Vetted("LeaderRule", c, ctx[r], hand[r], valid[r] /\ NumberFree(r), db)
    BY <2>1, <2>3, <2>4 DEF Vetted
  <2>6. QED
    BY <1>1, <1>2, <2>2, <2>5, JudgeVetted
<1>7. CASE LeaderRule(r)
  <2> DEFINE T == IF c.leader \in Live(db) THEN Tracking(r, c.leader) ELSE ctx[r]
             fine == valid[r] /\ LeaderThere(r)
  <2>1. pc[r] = "LeaderRule"
    BY <1>7 DEF LeaderRule
  <2>2. Mirrors(T, db)
    BY <1>2, <1>3, <2>1, TrackingMirrors DEF Vetted
  <2> HIDE DEF T
  <2>3. CASE c.op = "add" /\ fine /\ Judge(r, LeaderThere(r), T, "Insert")
    <3>1. Vetted("Insert", c, T, hand[r], fine, db)
      BY <1>3, <2>1, <2>3 DEF Vetted
    <3>2. QED
      BY <1>1, <1>2, <2>3, <3>1, JudgeVetted
  <2>4. CASE c.op = "update" /\ Judge(r, LeaderThere(r), T, "EmailRule")
    <3>1. Vetted("EmailRule", c, T, hand[r], fine, db)
      BY <2>2 DEF Vetted
    <3>2. QED
      BY <1>1, <1>2, <2>4, <3>1, JudgeVetted
  <2>5. QED
    BY <1>4, <1>7, <2>3, <2>4 DEF LeaderRule, Verdict, T
<1>8. QED
  BY <1>5, <1>6, <1>7

LEMMA AddVetted ==
  ASSUME OneAtATime, AnswerInv, NEW r \in Requests,
         InsertRejected(r) \/ AddCacheGet(r) \/ AddReload(r)
  PROVE  Vetting'
<1>1. TypeInv /\ Reading(pc[r], call[r], ctx[r], hand[r])
  BY DEF AnswerInv, InStep
<1>2. call[r].key \in EmailKeys
  BY <1>1 DEF Reading, AtStep, Keyed, InsertRejected, AddCacheGet, AddReload
<1>3. ASSUME NEW kind, NEW data, Finish(r, kind, data) PROVE Vetting'
  BY <1>1, <1>3, FinishVetted
<1>4. ASSUME NEW step \in {"AddReload", "CacheSet"}, NEW T, NEW v,
             Continue(r, step, T, v)
      PROVE  Vetting'
  <2>1. Vetted(step, call[r], T, v, valid[r], db')
    BY <1>2 DEF Vetted
  <2>2. QED
    BY <1>1, <1>4, <2>1, ContinueVetted
<1>5. QED
  BY <1>3, <1>4 DEF InsertRejected, AddCacheGet, AddReload

LEMMA LookupVetted ==
  ASSUME OneAtATime, AnswerInv, NEW r \in Requests,
         CacheGet(r) \/ ReadNone(r) \/ ReadOne(r) \/ ReadAll(r) \/ CacheSet(r)
  PROVE  Vetting'
<1>1. TypeInv /\ Reading(pc[r], call[r], ctx[r], hand[r])
  BY DEF AnswerInv, InStep
<1>2. db' = db /\ db \in Table
  BY CallTyped
     DEF CacheGet, ReadNone, ReadOne, ReadAll, CacheSet, shared, AnswerInv
<1>3. ASSUME NEW kind, NEW data, Finish(r, kind, data) PROVE Vetting'
  BY <1>1, <1>3, FinishVetted
<1>4. ASSUME NEW e, Compare(r, e) PROVE Vetting'
  BY <1>3, <1>4 DEF Compare
<1>5. CASE Continue(r, "Read", ctx[r], {})
  <2>1. Vetted("Read", call[r], ctx[r], {}, valid[r], db')
    BY DEF Vetted
  <2>2. QED
    BY <1>1, <1>5, <2>1, ContinueVetted
<1>6. CASE ReadOne(r)
  <2>1. PICK i \in Find(db, call[r].key) :
          LET T == Tracking(r, i)
          IN \/ Continue(r, "CacheSet", T, {EntryOf(T, i)})
             \/ Compare(r, EntryOf(T, i))
    BY <1>6 DEF ReadOne
  <2> DEFINE T == Tracking(r, i)
  <2>2. i \in Live(db) /\ ctx[r] = EmptyTable
    BY <1>1, <1>6 DEF Find, ReadOne, Reading
  <2>3. T[i] = db[i]
    BY <2>2 DEF Tracking, EmptyTable, Live
  <2>4. Vetted("CacheSet", call[r], T, {EntryOf(T, i)}, valid[r], db')
    BY <1>2, <2>2, <2>3 DEF Vetted, EntryOf
  <2> HIDE DEF T
  <2>5. QED
    BY <1>1, <1>4, <2>1, <2>4, ContinueVetted DEF T
<1>7. CASE ReadAll(r)
  <2>1. Vetted("CacheSet", call[r], db, Entries(db), valid[r], db')
    BY <1>2 DEF Vetted, Entries, EntryOf
  <2>2. QED
    BY <1>1, <1>7, <2>1, ContinueVetted DEF ReadAll
<1>8. QED
  BY <1>3, <1>4, <1>5, <1>6, <1>7 DEF CacheGet, ReadNone, CacheSet

LEMMA LoadVetted ==
  ASSUME OneAtATime, AnswerInv, Vetting, NEW r \in Requests,
         \/ Invalidate(r) \/ LoadNone(r)
         \/ LoadForDelete(r) \/ LoadForSave(r) \/ DeleteMissed(r)
  PROVE  Vetting'
<1>1. /\ TypeInv /\ Reading(pc[r], call[r], ctx[r], hand[r])
      /\ ctx[r] \in Table
  BY CallTyped DEF AnswerInv, InStep
<1>2. Vetted(pc[r], call[r], ctx[r], hand[r], valid[r], db)
  BY DEF Vetting
<1>3. db' = db
  BY DEF Invalidate, LoadNone, LoadForDelete, LoadForSave, DeleteMissed, shared
<1>4. ASSUME NEW kind, NEW data, Finish(r, kind, data) PROVE Vetting'
  BY <1>1, <1>4, FinishVetted
<1>5. CASE Invalidate(r)
  <2>1. Mirrors(ctx[r], db)
    BY <1>2, <1>5 DEF Vetted, Invalidate
  <2>2. CASE call[r].op = "remove" /\ Continue(r, "Load", ctx[r], {})
    <3>1. Vetted("Load", call[r], ctx[r], {}, valid[r], db')
      BY <1>3, <2>1, <2>2 DEF Vetted
    <3>2. QED
      BY <1>1, <2>2, <3>1, ContinueVetted
  <2>3. CASE call[r].op = "update" /\ Continue(r, "LeaderRule", ctx[r], {})
    <3>1. Vetted("LeaderRule", call[r], ctx[r], {}, valid[r], db')
      BY <1>3, <2>1, <2>3 DEF Vetted
    <3>2. QED
      BY <1>1, <2>3, <3>1, ContinueVetted
  <2>4. QED
    BY <1>5, <2>2, <2>3 DEF Invalidate
<1>6. CASE LoadForDelete(r)
  <2>1. PICK T, v : Continue(r, "Delete", T, v)
    BY <1>6 DEF LoadForDelete
  <2>2. Vetted("Delete", call[r], T, v, valid[r], db')
    BY DEF Vetted
  <2>3. QED
    BY <1>1, <2>1, <2>2, ContinueVetted
<1>7. CASE LoadForSave(r)
  <2>1. PICK i \in Find(db, call[r].key) :
          LET T == [Tracking(r, i) EXCEPT ![i] = Merge(call[r], @)]
          IN Continue(r, "Save", T, {EntryOf(T, i)})
    BY <1>7 DEF LoadForSave
  <2> DEFINE R == Tracking(r, i)
             T == [R EXCEPT ![i] = Merge(call[r], @)]
  <2>2. /\ pc[r] = "Load" /\ call[r].op = "update" /\ call[r].key \in Keys
    BY <1>7, <1>1, CallTyped DEF LoadForSave
  <2>3. /\ Mirrors(ctx[r], db) /\ FreshEmail(call[r], db)
    BY <1>2, <2>2 DEF Vetted
  <2>4. i \in Live(db) /\ call[r].key \in FiledUnder(EntryOf(db, i))
    BY DEF Find
  <2>5. call[r].key = <<"id", i>>
    BY <1>1, <2>2, <2>4 DEF Reading, Keyed, FiledUnder, EntryOf, AllKey
  <2>6. R[i] = db[i] /\ R \in Table
    BY <1>1, <2>3, <2>4, TrackingTyped
       DEF Tracking, Mirrors, Live, Table, TypeInv
  <2>7. \A j \in Ids : R[j] \in {NoRow, db[j]}
    BY <1>1, <2>3, TrackingMirrors DEF Mirrors
  <2> HIDE DEF R
  <2>8. T[i] = Merge(call[r], db[i]) /\ \A j \in Ids \ {i} : T[j] = R[j]
    BY <2>4, <2>6 DEF Table, Live
  <2> HIDE DEF T
  <2>9. Prepared(call[r], T, db, EntryOf(T, i))
    BY <2>4, <2>5, <2>7, <2>8 DEF Prepared, EntryOf
  <2>10. Vetted("Save", call[r], T, {EntryOf(T, i)}, valid[r], db')
    BY <1>3, <2>3, <2>9 DEF Vetted
  <2>11. QED
    BY <1>1, <2>1, <2>10, ContinueVetted DEF T, R
<1>8. QED
  BY <1>4, <1>5, <1>6, <1>7 DEF LoadNone, DeleteMissed

LEMMA RestVetted ==
  ASSUME OneAtATime, AnswerInv, Vetting,
         \/ \E r \in Requests : \/ SaveMissed(r) \/ SaveRejected(r) \/ Reload(r)
                                \/ Retry(r) \/ Abort(r)
         \/ \E key \in Keys : Expire(key)
         \/ Relink \/ RestartDb \/ UNCHANGED vars
  PROVE  Vetting'
<1>1. ASSUME NEW r \in Requests, NEW kind, NEW data, Finish(r, kind, data)
      PROVE  Vetting'
  BY <1>1, FinishVetted DEF AnswerInv
<1>2. CASE UNCHANGED <<db, pc, call, ctx, hand, valid>>
  BY <1>2 DEF Vetting
<1>3. CASE \E r \in Requests : \/ SaveMissed(r) \/ SaveRejected(r)
                               \/ Reload(r) \/ Abort(r)
  BY <1>1, <1>3 DEF SaveMissed, SaveRejected, Reload, Abort
<1>4. QED
  BY <1>2, <1>3 DEF Retry, Expire, Relink, RestartDb, vars, shared, own

-----------------------------------------------------------------------------
(***************************************************************************)
(* The steps that write the table.                                         *)
(***************************************************************************)

LEMMA WriteVetted ==
  ASSUME OneAtATime, AnswerInv, "lostAck" \notin Faults, NEW r \in Requests,
         Insert(r) \/ Save(r) \/ Delete(r)
  PROVE  Vetting'
<1>1. ASSUME NEW step \in {"AddCacheGet", "Reload"}, NEW T, NEW v,
             Continue(r, step, T, v)
      PROVE  Vetting'
  <2>1. Vetted(step, call[r], T, v, valid[r], db')
    BY DEF Vetted
  <2>2. QED
    BY <1>1, <2>1, ContinueVetted DEF AnswerInv
<1>2. ASSUME NEW kind, NEW data, Finish(r, kind, data) PROVE Vetting'
  BY <1>2, FinishVetted DEF AnswerInv
<1>3. QED
  BY <1>1, <1>2 DEF Insert, Save, Delete, Unacknowledged

LEMMA InsertApart ==
  ASSUME SerialInv, NEW r \in Requests, Insert(r)
  PROVE  Apart(db')
<1>1. /\ pc[r] = "Insert" /\ NewId <= MaxId /\ db' = InsertedTable(r)
      /\ TypeInv /\ db \in Table
  BY CallTyped DEF Insert, SerialInv, AnswerInv
<1>2. FreshEmail(call[r], db) /\ FreshNumber(call[r], db)
  BY <1>1 DEF SerialInv, Vetting, Vetted
<1>3. NewId \in Ids /\ call[r] \in AddCall
  BY <1>1, InsertedTyped DEF TypeInv, Inserting
<1>4. /\ db'[NewId].email = call[r].email /\ db'[NewId].number = call[r].number
      /\ \A j \in Ids \ {NewId} : db'[j] = db[j]
  BY <1>1, <1>3 DEF InsertedTable, Table, NewRow
<1>5. call[r].email # None
  BY <1>3, NullAssumption DEF AddCall
<1>6. \A j \in Live(db) : /\ db[j].number # call[r].number
                          /\ \/ db[j].email # call[r].email
                             \/ call[r].email = Blank
  BY <1>2, <1>5, FoundNone
<1>7. \A j \in Live(db') \ {NewId} : j \in Live(db) /\ db'[j] = db[j]
  BY <1>4 DEF Live
<1>8. QED
  BY <1>4, <1>6, <1>7 DEF Apart, SerialInv

LEMMA SaveApart ==
  ASSUME SerialInv, NEW r \in Requests, Save(r)
  PROVE  Apart(db')
<1>1. PICK e \in hand[r] : \E freed \in SUBSET Released(r, e) :
        /\ freed \cup {e.id} \subseteq Live(db)
        /\ db' = SavedTable(e, freed)
  BY DEF Save
<1>2. PICK freed \in SUBSET Released(r, e) :
        /\ freed \cup {e.id} \subseteq Live(db)
        /\ db' = SavedTable(e, freed)
  BY <1>1
<1>3. /\ pc[r] = "Save" /\ db \in Table /\ call[r] \in Call
      /\ call[r].op = "update"
  BY CallTyped DEF Save, SerialInv, AnswerInv, InStep, Reading, AtStep
<1>4. FreshEmail(call[r], db) /\ Prepared(call[r], ctx[r], db, e)
  BY <1>3 DEF SerialInv, Vetting, Vetted
<1>5. db[e.id] \in Row /\ e.id \in Ids
  BY <1>2, <1>3 DEF Live, Table
<1>6. /\ e.row.number = db[e.id].number
      /\ e.row.email \in {db[e.id].email, call[r].email} \ {None}
  <2>1. e.row.number = db[e.id].number
    BY <1>3, <1>4, <1>5, MergeTyped DEF Prepared
  <2>2. e.row.email = Or(call[r].email, db[e.id].email)
    BY <1>4, <1>5 DEF Prepared, Merge, Row
  <2>3. db[e.id].email # None
    BY <1>5, NullAssumption DEF Row
  <2>4. QED
    BY <2>1, <2>2, <2>3 DEF Or
<1>7. /\ db'[e.id] = e.row
      /\ \A j \in Ids \ {e.id} : db'[j].number = db[j].number
                                 /\ db'[j].email = db[j].email
  <2>1. \A j \in freed : /\ [db[j] EXCEPT !.leader = None].number = db[j].number
                         /\ [db[j] EXCEPT !.leader = None].email = db[j].email
    BY <1>2, <1>3 DEF Live, Table, Row
  <2>2. QED
    BY <1>2, <1>5, <2>1 DEF SavedTable
<1>8. Live(db') \subseteq Live(db)
  BY <1>2 DEF SavedTable, Live
<1>9. \A j \in Live(db) : \/ call[r].email \in {None, Blank}
                          \/ db[j].email # call[r].email
  BY <1>4, FoundNone
<1>10. ASSUME NEW j \in Live(db'), j # e.id
       PROVE  /\ db'[j].number # e.row.number
              /\ db'[j].email # e.row.email \/ e.row.email = Blank
              /\ e.row.email # db'[j].email \/ db'[j].email = Blank
  <2>1. j \in Live(db) /\ e.id \in Live(db) /\ j \in Ids
    BY <1>2, <1>8 DEF Live
  <2>2. /\ db[j].number # db[e.id].number
        /\ db[j].email # db[e.id].email \/ db[j].email = Blank
    BY <1>10, <2>1 DEF SerialInv, Apart
  <2>3. QED
    BY <1>6, <1>7, <1>9, <1>10, <2>1, <2>2
<1>11. ASSUME NEW j \in Live(db'), NEW k \in Live(db'),
              j # e.id, k # e.id, j # k
       PROVE  /\ db'[j].number # db'[k].number
              /\ db'[j].email # db'[k].email \/ db'[j].email = Blank
  <2>1. j \in Live(db) /\ k \in Live(db) /\ j \in Ids /\ k \in Ids
    BY <1>8 DEF Live
  <2>2. QED
    BY <1>7, <1>11, <2>1 DEF SerialInv, Apart
<1>12. QED
  BY <1>7, <1>10, <1>11 DEF Apart

LEMMA DeleteApart ==
  ASSUME SerialInv, NEW r \in Requests, Delete(r)
  PROVE  Apart(db')
<1>1. PICK e \in hand[r] : db[e.id] # NoRow /\ db' = DeleteRow(db, e.id)
  BY DEF Delete
<1>2. e.id \in Live(db) /\ db \in Table
  BY <1>1, CallTyped DEF SerialInv, AnswerInv, Entry, Live
<1>3. \A j \in Ids : db'[j] \in {db[j], NoRow}
  BY <1>1, <1>2, DeleteRowTyped
<1>4. \A j \in Live(db') : j \in Live(db) /\ db'[j] = db[j]
  BY <1>3 DEF Live
<1>5. QED
  BY <1>4 DEF SerialInv, Apart

LEMMA StepSerial ==
  ASSUME OneAtATime, "lostAck" \notin Faults
  PROVE  SerialInv /\ AnswerInv' /\ [Next]_vars => SerialInv'
<1> SUFFICES ASSUME SerialInv, AnswerInv', [Next]_vars
             PROVE  Vetting' /\ Apart(db)'
  BY DEF SerialInv
<1>1. AnswerInv /\ Vetting
  BY DEF SerialInv
<1>2. Vetting'
  <2>1. ASSUME NEW r \in Requests, Work(r) PROVE Vetting'
    BY <1>1, <2>1, RulesVetted, AddVetted, LookupVetted, LoadVetted,
       WriteVetted, RestVetted DEF Work
  <2>2. QED
    BY <1>1, <2>1, ReceiveVetted, RestVetted DEF Next
<1>3. Apart(db)'
  <2>1. CASE UNCHANGED db
    BY <2>1 DEF SerialInv
  <2>2. QED
    BY <2>1, DbChanges, InsertApart, SaveApart, DeleteApart
<1>4. QED
  BY <1>2, <1>3

LEMMA InitVetting == Init => Vetting
<1> SUFFICES ASSUME Init, NEW r \in Requests
             PROVE  Vetted(pc[r], call[r], ctx[r], hand[r], valid[r], db)
  BY DEF Vetting
<1>1. pc[r] = "idle"
  BY DEF Init
<1>2. QED
  BY <1>1 DEF Vetted

LEMMA SerialInvariant ==
  ASSUME OneAtATime, "lostAck" \notin Faults, \A T \in Seeds : Apart(T)
  PROVE  Spec => []SerialInv
<1>1. Init => Vetting /\ Apart(db)
  BY InitVetting DEF Init
<1>2. AnswerInv /\ Vetting /\ Apart(db) => SerialInv
  BY DEF SerialInv
<1>3. QED
  BY <1>1, <1>2, StepSerial, AnswersInvariant, PTL DEF Spec

\* The validators keep addresses and numbers apart although the database does not,
\* as long as calls come one at a time and no acknowledgement of an INSERT is lost
\* (its repeat would insert the employee once more): also over aborted calls,
\* restarts of the database and losses of the cache.
THEOREM ValidatorsSuffice ==
  ASSUME OneAtATime, "lostAck" \notin Faults, \A T \in Seeds : Apart(T)
  PROVE  Spec => []SerialUniqueness
<1>1. SerialInv => SerialUniqueness
  BY ApartIsUnique DEF SerialInv
<1>2. QED
  BY <1>1, SerialInvariant, PTL

-----------------------------------------------------------------------------
(***************************************************************************)
(* The EmployeeId keys.  From the invalidation of a call's key to its      *)
(* write nothing fills the key again.  An employee who is his own leader   *)
(* never gets into the cache: that SaveChanges may release him besides the *)
(* row it writes leaves no stale entry behind.                             *)
(***************************************************************************)

\* The key of a running change or removal, R being the cache.
Cold(p, c, R) ==
  p \in {"LeaderRule", "EmailRule", "Load", "Save", "Delete"} /\ c.op # "add"
    => R[c.key] = {}

\* What an entry says is in T, or it went with its leader; Ids below n were used.
Current(e, T, n) ==
  /\ e.row.leader # e.id
  /\ e.row.leader # None => e.row.leader < n
  /\ \/ e.id \in Live(T) /\ T[e.id] = e.row
     \/ /\ T[e.id] = NoRow
        /\ e.row.leader # None /\ T[e.row.leader] = NoRow

AllCold == \A r \in Requests : Cold(pc[r], call[r], redis)
AllCurrent == \A i \in Ids : \A e \in redis[<<"id", i>>] : Current(e, db, nextId)

KeyInv == linked /\ AllCold /\ AllCurrent

Basis == SerialInv /\ IdentityInv /\ Referential

LEMMA IdEntry ==
  ASSUME AnswerInv, NEW i \in Ids, NEW e \in redis[<<"id", i>>]
  PROVE  e \in Entry /\ e.id = i /\ e.row.leader \in Ids \cup {None}
<1>1. <<"id", i>> \in Keys \ EmailKeys
  BY DEF Keys, EmailKeys
<1>2. e \in Entry
  BY <1>1 DEF AnswerInv, TypeInv, TypeOK
<1>3. <<"id", i>> \in FiledUnder(e)
  BY <1>1 DEF AnswerInv, Filed
<1>4. e.id = i
  BY <1>3 DEF FiledUnder, AllKey
<1>5. QED
  BY <1>2, <1>4 DEF Entry, Row

LEMMA CurrentIsFresh == AnswerInv /\ AllCurrent => IdKeyFresh
<1> SUFFICES ASSUME AnswerInv, AllCurrent, NEW i \in Ids,
                    NEW e \in redis[<<"id", i>>]
             PROVE  \/ e \in Entries(db)
                    \/ /\ db[i] = NoRow /\ e.row.leader # None
                       /\ db[e.row.leader] = NoRow
  BY DEF IdKeyFresh
<1>1. e \in Entry /\ e.id = i /\ Current(e, db, nextId)
  BY IdEntry DEF AllCurrent
<1>2. e = [id |-> e.id, row |-> e.row]
  BY <1>1 DEF Entry
<1>3. QED
  BY <1>1, <1>2 DEF Current, Entries, EntryOf

\* Below a removed row every row goes with its leader.
LEMMA DoomedFollow ==
  ASSUME NEW T, NEW i \in Live(T), NEW j \in Doomed(T, i), j # i
  PROVE  T[j].leader \in Doomed(T, i)
<1> DEFINE l == T[j].leader
<1> SUFFICES ASSUME l \notin Doomed(T, i) PROVE FALSE
  OBVIOUS
<1>1. PICK S \in SUBSET Live(T) :
        i \in S /\ ClosedUnderFollowers(T, S) /\ l \notin S
  <2>1. CASE l \in Live(T)
    BY <2>1 DEF Doomed
  <2>2. CASE l \notin Live(T)
    <3>1. ClosedUnderFollowers(T, Live(T))
      BY DEF ClosedUnderFollowers
    <3>2. QED
      BY <2>2, <3>1
  <2>3. QED
    BY <2>1, <2>2
<1>2. ClosedUnderFollowers(T, S \ {j}) /\ i \in S \ {j}
  BY <1>1 DEF ClosedUnderFollowers
<1>3. j \in S \ {j}
  BY <1>1, <1>2 DEF Doomed
<1>4. QED
  BY <1>3

LEMMA InsertCurrent ==
  ASSUME Basis, AllCurrent, NEW r \in Requests, Insert(r)
  PROVE  AllCurrent'
<1>1. /\ NewId = nextId /\ NewId <= MaxId /\ nextId \in Nat /\ nextId' = nextId + 1
      /\ db' = InsertedTable(r) /\ redis' = redis /\ pc[r] = "Insert"
      /\ db \in Table
  BY CallTyped, MaxIdAssumption
     DEF Insert, NewId, Basis, SerialInv, AnswerInv, TypeInv, TypeOK
<1>2. \A j \in Ids \ {NewId} : db'[j] = db[j]
  BY <1>1 DEF InsertedTable, Table
<1>3. SUFFICES ASSUME NEW i \in Ids, NEW e \in redis[<<"id", i>>]
               PROVE  Current(e, db', nextId')
  BY <1>1 DEF AllCurrent
<1>4. /\ e \in Entry /\ e.id = i /\ e.row.leader \in Ids \cup {None}
      /\ Current(e, db, nextId)
  BY IdEntry DEF Basis, SerialInv, AllCurrent
<1>5. e.id < nextId
  <2>1. <<"id", i>> \in Keys
    BY DEF Keys
  <2>2. e \in Sightings
    BY <2>1 DEF Sightings
  <2>3. QED
    BY <2>2 DEF Basis, IdentityInv, Issued
<1>6. e.row.leader # None => /\ e.row.leader < nextId + 1
                             /\ db'[e.row.leader] = db[e.row.leader]
  BY <1>1, <1>2, <1>4 DEF Current, Ids
<1>7. db'[e.id] = db[e.id]
  BY <1>1, <1>2, <1>4, <1>5 DEF Ids
<1>8. QED
  BY <1>1, <1>4, <1>6, <1>7 DEF Current, Live

LEMMA SaveCurrent ==
  ASSUME Basis, AllCold, AllCurrent, NEW r \in Requests, Save(r)
  PROVE  AllCurrent'
<1>1. PICK e \in hand[r] : \E freed \in SUBSET Released(r, e) :
        /\ freed \cup {e.id} \subseteq Live(db)
        /\ db' = SavedTable(e, freed)
  BY DEF Save
<1>2. PICK freed \in SUBSET Released(r, e) :
        /\ freed \cup {e.id} \subseteq Live(db)
        /\ db' = SavedTable(e, freed)
  BY <1>1
<1>3. pc[r] = "Save" /\ UNCHANGED <<redis, nextId>>
  BY DEF Save
<1>4. Prepared(call[r], ctx[r], db, e) /\ call[r].op = "update"
  BY <1>3
     DEF Basis, SerialInv, Vetting, Vetted, AnswerInv, InStep, Reading, AtStep
<1>5. redis[<<"id", e.id>>] = {}
  BY <1>3, <1>4 DEF AllCold, Cold, Prepared
<1>6. SUFFICES ASSUME NEW i \in Ids, NEW f \in redis[<<"id", i>>]
               PROVE  Current(f, db', nextId)
  BY <1>3 DEF AllCurrent
<1>7. /\ f.id = i /\ f.id # e.id /\ f.row.leader \in Ids \cup {None}
      /\ Current(f, db, nextId)
  BY <1>5, IdEntry DEF Basis, SerialInv, AllCurrent
<1>8. f.id \notin freed
  <2> SUFFICES ASSUME f.id \in freed PROVE FALSE
    OBVIOUS
  <2>1. f.id \in Live(ctx[r]) /\ ctx[r][f.id].leader = f.id
    BY <1>2 DEF Released
  <2>2. db[f.id].leader = f.id
    BY <1>4, <1>7, <2>1 DEF Prepared, Live
  <2>3. f.id \in Live(db)
    BY <1>2
  <2>4. QED
    BY <1>7, <2>2, <2>3 DEF Current, Live
<1>9. db'[f.id] = db[f.id]
  BY <1>2, <1>7, <1>8 DEF SavedTable
<1>10. \A j \in Ids : db[j] = NoRow => db'[j] = NoRow
  BY <1>2 DEF SavedTable, Live
<1>11. QED
  BY <1>7, <1>9, <1>10 DEF Current, Live

LEMMA DeleteCurrent ==
  ASSUME Basis, AllCold, AllCurrent, NEW r \in Requests, Delete(r)
  PROVE  AllCurrent'
<1>1. PICK e \in hand[r] : db[e.id] # NoRow /\ db' = DeleteRow(db, e.id)
  BY DEF Delete
<1>2. pc[r] = "Delete" /\ UNCHANGED <<redis, nextId>>
  BY DEF Delete
<1>3. e.id \in Live(db) /\ db \in Table
  BY <1>1, CallTyped DEF Basis, SerialInv, AnswerInv, Entry, Live
<1>4. call[r].key = <<"id", e.id>> /\ call[r].op = "remove"
  BY <1>2 DEF Basis, SerialInv, AnswerInv, InStep, Reading, AtStep
<1>5. redis[<<"id", e.id>>] = {}
  BY <1>2, <1>4 DEF AllCold, Cold
<1>6. SUFFICES ASSUME NEW i \in Ids, NEW f \in redis[<<"id", i>>]
               PROVE  Current(f, db', nextId)
  BY <1>2 DEF AllCurrent
<1>7. /\ f.id = i /\ f.id # e.id /\ f.row.leader \in Ids \cup {None}
      /\ Current(f, db, nextId)
  BY <1>5, IdEntry DEF Basis, SerialInv, AllCurrent
<1>8. \A j \in Ids : db'[j] \in {db[j], NoRow}
  BY <1>1, <1>3, DeleteRowTyped
<1>9. CASE f.id \in Doomed(db, e.id)
  <2>1. f.id \in Live(db) /\ db[f.id] = f.row
    BY <1>7, <1>9 DEF Doomed, Current, Live
  <2>2. f.row.leader \in Doomed(db, e.id)
    BY <1>3, <1>7, <1>9, <2>1, DoomedFollow
  <2>3. f.row.leader \in Ids /\ f.row.leader # None
    BY <2>2, NullAssumption DEF Doomed, Live, Ids
  <2>4. db'[f.id] = NoRow /\ db'[f.row.leader] = NoRow
    BY <1>1, <1>7, <1>9, <2>2, <2>3 DEF DeleteRow
  <2>5. QED
    BY <1>7, <2>3, <2>4 DEF Current
<1>10. CASE f.id \notin Doomed(db, e.id)
  <2>1. db'[f.id] = db[f.id]
    BY <1>1, <1>7, <1>10 DEF DeleteRow
  <2>2. f.row.leader # None /\ db[f.row.leader] = NoRow
          => db'[f.row.leader] = NoRow
    BY <1>7, <1>8
  <2>3. QED
    BY <1>7, <2>1, <2>2 DEF Current, Live
<1>11. QED
  BY <1>9, <1>10

\* Dropping keys, or nothing at all, leaves the others current.
LEMMA DropCurrent ==
  ASSUME AllCurrent, UNCHANGED <<db, nextId>>,
         \A k \in Keys : redis'[k] \subseteq redis[k]
  PROVE  AllCurrent'
<1>1. \A i \in Ids : <<"id", i>> \in Keys
  BY DEF Keys
<1>2. QED
  BY <1>1 DEF AllCurrent

LEMMA CacheSetCurrent ==
  ASSUME Basis, AllCurrent, linked, NEW r \in Requests, CacheSet(r)
  PROVE  AllCurrent'
<1>1. UNCHANGED <<db, nextId>> /\ pc[r] = "CacheSet"
  BY DEF CacheSet
<1>2. CASE redis' = redis
  BY <1>1, <1>2 DEF AllCurrent
<1>3. CASE Storable(r) /\ CachePut(call[r].key, hand[r])
  <2>1. redis' = [redis EXCEPT ![call[r].key] = hand[r]]
    BY <1>3 DEF CachePut
  <2>2. SUFFICES ASSUME NEW i \in Ids, NEW e \in redis'[<<"id", i>>],
                        call[r].key = <<"id", i>>
                 PROVE  Current(e, db, nextId)
    BY <1>1, <2>1 DEF AllCurrent
  <2>3. e \in hand[r] /\ e \in Entry
    <3>1. <<"id", i>> \in Keys /\ redis \in [Keys -> SUBSET Entry]
            /\ hand[r] \in SUBSET Entry
      BY DEF Keys, Basis, SerialInv, AnswerInv, TypeInv, TypeOK
    <3>2. QED
      BY <2>1, <2>2, <3>1
  <2>4. /\ e.id \in Live(db) /\ e.row = db[e.id] /\ ctx[r][e.id] = db[e.id]
    <3>1. call[r].key \notin EmailKeys
      BY <2>2 DEF EmailKeys
    <3>2. QED
      BY <1>1, <2>3, <3>1 DEF Basis, SerialInv, Vetting, Vetted
  <2>5. e.row.leader # e.id
    <3> SUFFICES ASSUME e.row.leader = e.id PROVE FALSE
      OBVIOUS
    <3>1. {e.id} \subseteq Live(ctx[r]) /\ ctx[r][e.id].leader = e.id
      BY <2>4 DEF Live
    <3> DEFINE S == {e.id}
    <3>2. S \in SUBSET Live(ctx[r]) /\ e.id \in S
      BY <3>1
    <3>3. \A j \in S : ctx[r][j].leader \in S
      BY <3>1
    <3> HIDE DEF S
    <3>4. Endless(ctx[r], e.id)
      BY <3>2, <3>3 DEF Endless
    <3>5. QED
      BY <1>3, <2>3, <3>4 DEF Storable
  <2>6. e.row.leader # None => e.row.leader < nextId
    <3> SUFFICES ASSUME e.row.leader # None PROVE e.row.leader < nextId
      OBVIOUS
    <3>1. e.row.leader \in Live(db)
      BY <2>4 DEF Basis, Referential, Consistent, LeadersExist
    <3>2. EntryOf(db, e.row.leader) \in Sightings
      BY <3>1 DEF Sightings, Entries
    <3>3. QED
      BY <3>2 DEF Basis, IdentityInv, Issued, EntryOf
  <2>7. QED
    BY <2>4, <2>5, <2>6 DEF Current
<1>4. QED
  BY <1>2, <1>3 DEF CacheSet

\* Only a lookup puts an entry under an EmployeeId key, only a write changes the
\* table.
LEMMA StepCurrent ==
  ASSUME "restart" \notin Faults, Basis, KeyInv, [Next]_vars
  PROVE  AllCurrent'
<1> USE DEF KeyInv
<1>1. ASSUME UNCHANGED shared PROVE AllCurrent'
  BY <1>1, DropCurrent DEF shared
<1>2. ASSUME NEW r \in Requests, Invalidate(r) PROVE AllCurrent'
  <2>1. redis' = [redis EXCEPT ![call[r].key] = {}] /\ UNCHANGED <<db, nextId>>
    BY <1>2 DEF Invalidate, CachePut
  <2>2. \A k \in Keys : redis'[k] \subseteq redis[k]
    BY <2>1 DEF Basis, SerialInv, AnswerInv, TypeInv, TypeOK
  <2>3. QED
    BY <2>1, <2>2, DropCurrent
<1>3. ASSUME NEW key \in Keys, Expire(key) PROVE AllCurrent'
  <2>1. redis' = [redis EXCEPT ![key] = {}] /\ UNCHANGED <<db, nextId>>
    BY <1>3 DEF Expire
  <2>2. \A k \in Keys : redis'[k] \subseteq redis[k]
    BY <2>1 DEF Basis, SerialInv, AnswerInv, TypeInv, TypeOK
  <2>3. QED
    BY <2>1, <2>2, DropCurrent
<1>4. ASSUME NEW r \in Requests, Work(r) PROVE AllCurrent'
  <2>1. CASE Insert(r) \/ Save(r) \/ Delete(r) \/ CacheSet(r) \/ Invalidate(r)
    BY <1>2, <2>1, InsertCurrent, SaveCurrent, DeleteCurrent, CacheSetCurrent
  <2>2. CASE UNCHANGED shared
    BY <1>1, <2>2
  <2>3. QED
    BY <1>4, <2>1, <2>2
       DEF Work, EmailRule, NumberRule, LeaderRule, InsertRejected,
           AddCacheGet, AddReload, CacheGet, ReadNone, ReadOne, ReadAll,
           LoadNone, LoadForDelete, LoadForSave, DeleteMissed, SaveMissed,
           SaveRejected, Reload, Retry, shared
<1>5. ASSUME NEW r \in Requests, Receive(r) \/ Abort(r) PROVE AllCurrent'
  BY <1>1, <1>5 DEF Receive, Abort
<1>6. CASE Relink
  BY <1>6, DropCurrent DEF Relink
<1>7. QED
  BY <1>1, <1>3, <1>4, <1>5, <1>6 DEF Next, RestartDb, vars

-----------------------------------------------------------------------------
LEMMA ColdAfter ==
  ASSUME OneAtATime, NEW r \in Requests, Cold(pc'[r], call'[r], redis')
  PROVE  AllCold'
BY DEF OneAtATime, AllCold

\* A call moves to another step, or ends.
LEMMA MoveCold ==
  ASSUME OneAtATime, TypeInv, NEW r \in Requests, NEW step,
         Cold(step, call[r], redis'),
         \/ \E T, v : Continue(r, step, T, v)
         \/ \E ok, T : Judge(r, ok, T, step)
         \/ \E kind, data : Finish(r, kind, data)
  PROVE  AllCold'
<1>1. CASE (\E T, v : Continue(r, step, T, v)) \/ \E ok, T : Judge(r, ok, T, step)
  <2>1. pc'[r] = step /\ call'[r] = call[r]
    BY <1>1 DEF Continue, Judge, TypeInv, TypeOK
  <2>2. QED
    BY <2>1, ColdAfter
<1>2. CASE \E kind, data : Finish(r, kind, data)
  <2>1. pc'[r] = "idle"
    BY <1>2 DEF Finish, TypeInv, TypeOK
  <2>2. QED
    BY <2>1, ColdAfter DEF Cold
<1>3. QED
  BY <1>1, <1>2

LEMMA WorkCold ==
  ASSUME OneAtATime, "lostAck" \notin Faults, AnswerInv, linked, AllCold,
         NEW r \in Requests, Work(r)
  PROVE  AllCold'
<1>1. /\ TypeInv /\ AtStep(pc[r], call[r].op) /\ Cold(pc[r], call[r], redis)
      /\ call[r].key \in Keys /\ redis \in [Keys -> SUBSET Entry]
  BY CallTyped DEF AnswerInv, InStep, Reading, AllCold, TypeInv, TypeOK
<1>2. ASSUME NEW step \in {"NumberRule", "Insert", "AddCacheGet", "AddReload",
                           "CacheSet", "Read", "Reload", "idle"},
             \/ \E T, v : Continue(r, step, T, v)
             \/ \E ok, T : Judge(r, ok, T, step)
             \/ \E kind, data : Finish(r, kind, data)
      PROVE  AllCold'
  <2>1. Cold(step, call[r], redis')
    BY DEF Cold
  <2>2. QED
    BY <1>1, <1>2, <2>1, MoveCold
<1>3. ASSUME NEW step \in {"LeaderRule", "EmailRule", "Load", "Save", "Delete"},
             pc[r] \in {"LeaderRule", "EmailRule", "Load"} \/ call[r].op = "add",
             redis' = redis,
             \/ \E T, v : Continue(r, step, T, v)
             \/ \E ok, T : Judge(r, ok, T, step)
      PROVE  AllCold'
  <2>1. Cold(step, call[r], redis')
    BY <1>1, <1>3 DEF Cold
  <2>2. QED
    BY <1>1, <1>3, <2>1, MoveCold
<1>4. ASSUME \E kind, data : Finish(r, kind, data) PROVE AllCold'
  BY <1>2, <1>4
<1>5. CASE EmailRule(r)
  BY <1>2, <1>3, <1>4, <1>5 DEF EmailRule, Verdict, shared
<1>6. CASE NumberRule(r)
  BY <1>1, <1>3, <1>6 DEF NumberRule, AtStep, shared
<1>7. CASE LeaderRule(r)
  BY <1>2, <1>3, <1>4, <1>7 DEF LeaderRule, Verdict, shared
<1>8. CASE InsertRejected(r) \/ Insert(r) \/ AddCacheGet(r) \/ AddReload(r)
  BY <1>2, <1>4, <1>8
     DEF InsertRejected, Insert, AddCacheGet, AddReload, Unacknowledged
<1>9. CASE CacheGet(r) \/ ReadNone(r) \/ ReadOne(r) \/ ReadAll(r) \/ CacheSet(r)
  BY <1>2, <1>4, <1>9
     DEF CacheGet, ReadNone, ReadOne, ReadAll, CacheSet, Compare
<1>10. CASE Invalidate(r)
  <2>1. redis'[call[r].key] = {}
    BY <1>1, <1>10 DEF Invalidate, CachePut
  <2>2. PICK step : \E T, v : Continue(r, step, T, v)
    BY <1>10 DEF Invalidate
  <2>3. Cold(step, call[r], redis')
    BY <2>1 DEF Cold
  <2>4. QED
    BY <1>1, <2>2, <2>3, MoveCold
<1>11. CASE LoadNone(r) \/ LoadForDelete(r) \/ LoadForSave(r)
  BY <1>3, <1>4, <1>11 DEF LoadNone, LoadForDelete, LoadForSave, shared
<1>12. CASE DeleteMissed(r) \/ Delete(r) \/ SaveMissed(r) \/ SaveRejected(r)
              \/ Save(r) \/ Reload(r)
  BY <1>2, <1>4, <1>12
     DEF DeleteMissed, Delete, SaveMissed, SaveRejected, Save, Reload,
         Unacknowledged
<1>13. CASE Retry(r)
  BY <1>13 DEF Retry, AllCold, shared
<1>14. QED
  BY <1>5, <1>6, <1>7, <1>8, <1>9, <1>10, <1>11, <1>12, <1>13 DEF Work

LEMMA StepCold ==
  ASSUME OneAtATime, "lostAck" \notin Faults, AnswerInv, linked, AllCold,
         [Next]_vars
  PROVE  AllCold'
<1>1. ASSUME NEW r \in Requests, Receive(r) PROVE AllCold'
  <2>1. PICK c \in Inputs :
          /\ pc' = [pc EXCEPT ![r] = FirstStep[c.op]]
          /\ call' = [call EXCEPT ![r] = Normalised(c)]
    BY <1>1 DEF Receive
  <2>2. pc'[r] = FirstStep[c.op] /\ call'[r] = Normalised(c)
    BY <2>1 DEF AnswerInv, TypeInv, TypeOK
  <2>3. Cold(pc'[r], call'[r], redis')
    BY <2>2, InputKeyed DEF Cold, FirstStep
  <2>4. QED
    BY <2>3, ColdAfter
<1>2. ASSUME NEW r \in Requests, Abort(r) PROVE AllCold'
  <2>1. Cold("idle", call[r], redis')
    BY DEF Cold
  <2>2. QED
    BY <1>2, <2>1, MoveCold DEF Abort, AnswerInv
<1>3. ASSUME NEW key \in Keys, Expire(key) PROVE AllCold'
  <2>1. redis' = [redis EXCEPT ![key] = {}] /\ UNCHANGED <<pc, call>>
    BY <1>3 DEF Expire, own
  <2>2. \A k \in Keys : redis[k] = {} => redis'[k] = {}
    BY <2>1 DEF AnswerInv, TypeInv, TypeOK
  <2>3. \A r \in Requests : call[r].key \in Keys
    BY CallTyped DEF AnswerInv
  <2>4. QED
    BY <2>1, <2>2, <2>3 DEF AllCold, Cold
<1>4. CASE UNCHANGED <<pc, call, redis>>
  BY <1>4 DEF AllCold
<1>5. QED
  BY <1>1, <1>2, <1>3, <1>4, WorkCold
     DEF Next, Relink, RestartDb, vars, shared, own

LEMMA StepLinked ==
  ASSUME "link" \notin Faults, linked, [Next]_vars
  PROVE  linked'
<1>1. ASSUME NEW r \in Requests, Receive(r) \/ Work(r) \/ Abort(r)
      PROVE  linked' = linked
  BY <1>1
     DEF Receive, Work, Abort, EmailRule, NumberRule, LeaderRule,
         InsertRejected, Insert, AddCacheGet, AddReload, CacheGet, ReadNone,
         ReadOne, ReadAll, CacheSet, Invalidate, LoadNone, LoadForDelete,
         LoadForSave, DeleteMissed, Delete, SaveMissed, SaveRejected, Save,
         Reload, Retry, shared
<1>2. QED
  BY <1>1 DEF Next, Expire, Relink, RestartDb, vars, shared

LEMMA InitKeys == Init => KeyInv
<1> SUFFICES ASSUME Init PROVE KeyInv
  OBVIOUS
<1>1. AllCold
  BY DEF Init, AllCold, Cold
<1>2. AllCurrent
  BY DEF Init, AllCurrent, Keys
<1>3. QED
  BY <1>1, <1>2 DEF Init, KeyInv

\* As long as calls come one at a time and nothing fails but single calls, what is
\* cached under an EmployeeId is the employee as the table has it, or one who went
\* with a removed leader: between its invalidation and its write nothing stores the
\* old version, also when the call is aborted or repeats its write.
THEOREM IdKeysFollow ==
  ASSUME OneAtATime, Faults = {}, \A T \in Seeds : Apart(T)
  PROVE  Spec => []IdKeyFresh
<1>1. Basis /\ KeyInv /\ [Next]_vars => KeyInv'
  <2> SUFFICES ASSUME Basis, KeyInv, [Next]_vars PROVE KeyInv'
    OBVIOUS
  <2>1. AllCold'
    BY StepCold DEF Basis, SerialInv, KeyInv
  <2>2. AllCurrent'
    BY StepCurrent
  <2>3. linked'
    BY StepLinked DEF KeyInv
  <2>4. QED
    BY <2>1, <2>2, <2>3 DEF KeyInv
<1>2. SerialInv /\ IdentityInv /\ Referential => Basis
  BY DEF Basis
<1>3. Spec => []SerialInv
  BY SerialInvariant
<1>4. Spec => []IdentityInv
  BY IdentityInvariant
<1>5. Basis /\ KeyInv => IdKeyFresh
  BY CurrentIsFresh DEF Basis, SerialInv, KeyInv
<1>6. QED
  BY <1>1, <1>2, <1>3, <1>4, <1>5, InitKeys, ReferentialIntegrity, PTL DEF Spec

-----------------------------------------------------------------------------
(***************************************************************************)
(* What a successful write has left in the table.                          *)
(***************************************************************************)

Hired(c, T) ==
  \E i \in Live(T) : /\ T[i].email = c.email /\ T[i].number = c.number
                     /\ T[i].leader = c.leader

\* A request past its write has its effect in T.
Done(p, c, h, T) ==
  /\ p = "Save" => \E e : h = {e}
  /\ p = "Reload" => \E e : /\ h = {e} /\ e \in Entries(T)
                            /\ c.key = <<"id", e.id>>
                            /\ Merge(c, e.row) = e.row
  /\ p \in {"AddCacheGet", "AddReload"} => Hired(c, T)
  /\ p = "CacheSet" /\ c.op = "add" => Hired(c, T)

AllDone == \A r \in Requests : Done(pc[r], call[r], hand[r], db)

Standing ==
  \A r \in Requests :
    pc[r] # "idle" /\ pc'[r] = "idle" /\ answer'[r].kind = "ok" =>
      EffectStands(call[r], answer'[r].data, db')

LEMMA EndStands ==
  ASSUME OneAtATime, TypeInv, NEW r \in Requests, NEW kind, NEW data,
         Finish(r, kind, data),
         kind = "ok" => EffectStands(call[r], data, db')
  PROVE  AllDone' /\ Standing
<1>1. \A q \in Requests : /\ pc'[q] = "idle" /\ call[q] = call[r]
                          /\ answer'[q].kind = kind /\ answer'[q].data = data
  BY DEF OneAtATime, Finish, TypeInv, TypeOK
<1>2. AllDone'
  BY <1>1 DEF AllDone, Done
<1>3. Standing
  BY <1>1 DEF Standing
<1>4. QED
  BY <1>2, <1>3

LEMMA MoveStands ==
  ASSUME OneAtATime, TypeInv, NEW r \in Requests, NEW step, step # "idle",
         \/ \E T, v : Continue(r, step, T, v) /\ Done(step, call[r], v, db')
         \/ /\ \E ok, T : Judge(r, ok, T, step)
            /\ step \notin {"Save", "Reload", "AddCacheGet", "AddReload",
                            "CacheSet"}
  PROVE  AllDone' /\ Standing
<1>1. pc'[r] = step /\ call'[r] = call[r] /\ Done(step, call[r], hand'[r], db')
  BY DEF Continue, Judge, TypeInv, TypeOK, Done
<1>2. \A q \in Requests : q = r
  BY DEF OneAtATime
<1>3. AllDone'
  BY <1>1, <1>2 DEF AllDone
<1>4. Standing
  BY <1>1, <1>2 DEF Standing
<1>5. QED
  BY <1>3, <1>4

LEMMA InsertHires ==
  ASSUME TypeInv, NEW r \in Requests, Insert(r)
  PROVE  Hired(call[r], db')
<1>1. pc[r] = "Insert" /\ NewId <= MaxId /\ db' = InsertedTable(r) /\ db \in Table
  BY CallTyped DEF Insert
<1>2. NewId \in Ids /\ NewRow(call[r]) \in Row
  BY <1>1, InsertedTyped
<1>3. db'[NewId] = NewRow(call[r]) /\ NewId \in Live(db')
  BY <1>1, <1>2, NoRowAssumption DEF InsertedTable, Table, Live
<1>4. QED
  BY <1>3 DEF Hired, NewRow

LEMMA SaveStands ==
  ASSUME OneAtATime, "lostAck" \notin Faults, SerialInv, AllDone,
         NEW r \in Requests, Save(r)
  PROVE  AllDone' /\ Standing
<1>1. PICK e \in hand[r] : \E freed \in SUBSET Released(r, e) :
        /\ freed \cup {e.id} \subseteq Live(db)
        /\ db' = SavedTable(e, freed)
  BY DEF Save
<1>2. db'[e.id] = e.row /\ e.id \in Live(db)
  BY <1>1 DEF SavedTable, Live
<1>3. /\ pc[r] = "Save" /\ TypeInv /\ db \in Table /\ call[r] \in Call
      /\ e \in Entry
  BY CallTyped DEF Save, SerialInv, AnswerInv
<1>4. hand[r] = {e}
  BY <1>3 DEF AllDone, Done
<1>5. Prepared(call[r], ctx[r], db, e)
  BY <1>3 DEF SerialInv, Vetting, Vetted
<1>6. Merge(call[r], e.row) = e.row
  BY <1>2, <1>3, <1>5, MergeTwice DEF Prepared, Live, Table
<1>7. e \in Entries(db')
  <2>1. e.row # NoRow /\ e = [id |-> e.id, row |-> e.row]
    BY <1>3, NoRowAssumption DEF Entry
  <2>2. e.id \in Live(db')
    BY <1>2, <2>1 DEF Live
  <2>3. QED
    BY <1>2, <2>1, <2>2 DEF Entries, EntryOf
<1>8. Done("Reload", call[r], hand[r], db')
  BY <1>4, <1>5, <1>6, <1>7 DEF Done, Prepared
<1>9. Continue(r, "Reload", ctx[r], hand[r])
  BY DEF Save, Unacknowledged
<1>10. QED
  BY <1>3, <1>8, <1>9, MoveStands

LEMMA ReloadStands ==
  ASSUME OneAtATime, SerialInv, AllDone, NEW r \in Requests, Reload(r)
  PROVE  AllDone' /\ Standing
<1>1. pc[r] = "Reload" /\ db' = db /\ TypeInv
  BY DEF Reload, shared, SerialInv, AnswerInv
<1>2. call[r].op = "update"
  BY <1>1 DEF SerialInv, AnswerInv, InStep, Reading, AtStep
<1>3. PICK e : /\ hand[r] = {e} /\ e \in Entries(db)
               /\ call[r].key = <<"id", e.id>> /\ Merge(call[r], e.row) = e.row
  BY <1>1 DEF AllDone, Done
<1>4. e.id \in Find(db, call[r].key)
  BY <1>3 DEF Find, Entries, EntryOf, FiledUnder
<1>5. Finish(r, "ok", hand[r])
  BY <1>4 DEF Reload
<1>6. EffectStands(call[r], hand[r], db')
  BY <1>1, <1>2, <1>3 DEF EffectStands
<1>7. QED
  BY <1>1, <1>5, <1>6, EndStands

LEMMA DeleteStands ==
  ASSUME OneAtATime, "lostAck" \notin Faults, SerialInv, Referential,
         NEW r \in Requests, Delete(r)
  PROVE  AllDone' /\ Standing
<1>1. PICK e \in hand[r] : db[e.id] # NoRow /\ db' = DeleteRow(db, e.id)
  BY DEF Delete
<1>2. /\ e.id \in Live(db) /\ db \in Table /\ TypeInv
      /\ Reading("Delete", call[r], ctx[r], hand[r])
  BY <1>1, CallTyped DEF Delete, SerialInv, AnswerInv, InStep, Entry, Live
<1>3. db'[e.id] = NoRow /\ Consistent(db')
  BY <1>1, <1>2, DeleteRowTyped, CascadeConsistent DEF Referential
<1>4. \A d \in hand[r] : d.id = e.id
  BY <1>2 DEF Reading
<1>5. e.id \in Ids
  BY <1>2 DEF Live
<1>6. \A j \in Live(db') : db'[j].leader # e.id
  <2>1. e.id \notin Live(db') /\ e.id # None
    BY <1>3, <1>5, NullAssumption DEF Live, Ids
  <2>2. QED
    BY <1>3, <2>1 DEF Consistent, LeadersExist
<1>7. EffectStands(call[r], hand[r], db')
  BY <1>2, <1>4, <1>6 DEF EffectStands, Reading, AtStep
<1>8. Finish(r, "ok", hand[r])
  BY DEF Delete, Unacknowledged
<1>9. QED
  BY <1>2, <1>7, <1>8, EndStands

\* The steps of a call that write nothing.
LEMMA QuietStands ==
  ASSUME OneAtATime, "lostAck" \notin Faults, SerialInv, AllDone,
         NEW r \in Requests, Work(r), ~Save(r), ~Delete(r), ~Reload(r)
  PROVE  AllDone' /\ Standing
<1>1. /\ TypeInv /\ Reading(pc[r], call[r], ctx[r], hand[r])
      /\ Done(pc[r], call[r], hand[r], db)
  BY DEF SerialInv, AnswerInv, InStep, AllDone
<1>2. ASSUME NEW kind, NEW data, kind # "ok", Finish(r, kind, data)
      PROVE  AllDone' /\ Standing
  BY <1>1, <1>2, EndStands
<1>3. ASSUME NEW kind, NEW data, call[r].op \in {"get", "auth"},
             Finish(r, kind, data)
      PROVE  AllDone' /\ Standing
  BY <1>1, <1>3, EndStands DEF EffectStands
<1>4. ASSUME NEW step \in {"NumberRule", "LeaderRule", "EmailRule", "Load",
                           "Insert"},
             \E ok, T : Judge(r, ok, T, step)
      PROVE  AllDone' /\ Standing
  BY <1>1, <1>4, MoveStands
<1>5. ASSUME NEW step, step # "idle",
             \E T, v : Continue(r, step, T, v) /\ Done(step, call[r], v, db')
      PROVE  AllDone' /\ Standing
  BY <1>1, <1>5, MoveStands
<1>6. CASE EmailRule(r) \/ NumberRule(r) \/ LeaderRule(r)
  BY <1>2, <1>4, <1>6 DEF EmailRule, NumberRule, LeaderRule, Verdict
<1>7. CASE InsertRejected(r) \/ Insert(r)
  <2>1. CASE InsertRejected(r)
    BY <1>2, <2>1 DEF InsertRejected
  <2>2. CASE Insert(r)
    <3>1. PICK T, v : Continue(r, "AddCacheGet", T, v)
      BY <2>2 DEF Insert, Unacknowledged
    <3>2. Done("AddCacheGet", call[r], v, db')
      BY <1>1, <2>2, InsertHires DEF Done
    <3>3. QED
      BY <1>5, <3>1, <3>2
  <2>3. QED
    BY <1>7, <2>1, <2>2
<1>8. CASE AddCacheGet(r) \/ AddReload(r)
  <2>1. /\ db' = db /\ pc[r] \in {"AddCacheGet", "AddReload"}
        /\ call[r].op = "add" /\ Hired(call[r], db)
    BY <1>1, <1>8 DEF AddCacheGet, AddReload, shared, Reading, AtStep, Done
  <2>2. ASSUME NEW data, Finish(r, "ok", data)
        PROVE  AllDone' /\ Standing
    BY <1>1, <2>1, <2>2, EndStands DEF EffectStands, Hired
  <2>3. ASSUME NEW step \in {"AddReload", "CacheSet"}, NEW T, NEW v,
               Continue(r, step, T, v)
        PROVE  AllDone' /\ Standing
    <3>1. Done(step, call[r], v, db')
      BY <2>1 DEF Done
    <3>2. QED
      BY <1>5, <2>3, <3>1
  <2>4. QED
    BY <1>8, <2>2, <2>3 DEF AddCacheGet, AddReload
<1>9. CASE CacheGet(r) \/ ReadNone(r) \/ ReadOne(r) \/ ReadAll(r)
  <2>1. call[r].op \in {"get", "auth"}
    BY <1>1, <1>9 DEF CacheGet, ReadNone, ReadOne, ReadAll, Reading, AtStep
  <2>2. ASSUME NEW step \in {"Read", "CacheSet"}, NEW T, NEW v,
               Continue(r, step, T, v)
        PROVE  AllDone' /\ Standing
    <3>1. Done(step, call[r], v, db')
      BY <2>1 DEF Done
    <3>2. QED
      BY <1>5, <2>2, <3>1
  <2>3. ASSUME NEW e, Compare(r, e) PROVE AllDone' /\ Standing
    BY <1>3, <2>1, <2>3 DEF Compare
  <2>4. CASE CacheGet(r) \/ ReadNone(r) \/ ReadAll(r)
    BY <1>3, <2>1, <2>2, <2>3, <2>4 DEF CacheGet, ReadNone, ReadAll
  <2>5. CASE ReadOne(r)
    <3>1. \/ \E T, v : Continue(r, "CacheSet", T, v)
          \/ \E e : Compare(r, e)
      BY <2>5 DEF ReadOne
    <3>2. QED
      BY <2>2, <2>3, <3>1
  <2>6. QED
    BY <1>9, <2>4, <2>5
<1>10. CASE CacheSet(r)
  <2>1. /\ db' = db /\ call[r].op \in {"get", "auth", "add"}
        /\ call[r].op = "add" => Hired(call[r], db)
    BY <1>1, <1>10 DEF CacheSet, Reading, AtStep, Done
  <2>2. EffectStands(call[r], hand[r], db')
    BY <2>1 DEF EffectStands, Hired
  <2>3. QED
    BY <1>1, <1>2, <1>10, <2>2, EndStands DEF CacheSet
<1>11. CASE Invalidate(r)
  <2>1. PICK step \in {"Load", "LeaderRule"} : \E T, v : Continue(r, step, T, v)
    BY <1>11 DEF Invalidate
  <2>2. \A v : Done(step, call[r], v, db')
    BY DEF Done
  <2>3. QED
    BY <1>5, <2>1, <2>2
<1>12. CASE LoadNone(r) \/ LoadForDelete(r) \/ LoadForSave(r)
  <2>1. CASE LoadNone(r)
    BY <1>2, <2>1 DEF LoadNone
  <2>2. CASE LoadForDelete(r)
    <3>1. PICK T, v : Continue(r, "Delete", T, v)
      BY <2>2 DEF LoadForDelete
    <3>2. Done("Delete", call[r], v, db')
      BY DEF Done
    <3>3. QED
      BY <1>5, <3>1, <3>2
  <2>3. CASE LoadForSave(r)
    <3>1. PICK T, e : Continue(r, "Save", T, {e})
      BY <2>3 DEF LoadForSave
    <3>2. Done("Save", call[r], {e}, db')
      BY DEF Done
    <3>3. QED
      BY <1>5, <3>1, <3>2
  <2>4. QED
    BY <1>12, <2>1, <2>2, <2>3
<1>13. CASE DeleteMissed(r) \/ SaveMissed(r) \/ SaveRejected(r)
  BY <1>2, <1>13 DEF DeleteMissed, SaveMissed, SaveRejected
<1>14. CASE Retry(r)
  BY <1>14 DEF Retry, AllDone, Standing, shared
<1>15. QED
  BY <1>6, <1>7, <1>8, <1>9, <1>10, <1>11, <1>12, <1>13, <1>14 DEF Work

LEMMA StepStands ==
  ASSUME OneAtATime, "lostAck" \notin Faults, SerialInv, Referential, AllDone,
         [Next]_vars
  PROVE  AllDone' /\ Standing
<1>1. ASSUME NEW r \in Requests, Receive(r) PROVE AllDone' /\ Standing
  <2>1. PICK c \in Inputs : pc' = [pc EXCEPT ![r] = FirstStep[c.op]]
    BY <1>1 DEF Receive
  <2>2. pc'[r] = FirstStep[c.op] /\ pc[r] = "idle"
    BY <1>1, <2>1 DEF Receive, SerialInv, AnswerInv, TypeInv, TypeOK
  <2>3. FirstStep[c.op] \in {"CacheGet", "EmailRule", "Invalidate"}
    BY InputKeyed DEF FirstStep
  <2>4. \A q \in Requests : q = r
    BY DEF OneAtATime
  <2>5. AllDone'
    BY <2>2, <2>3, <2>4 DEF AllDone, Done
  <2>6. Standing
    BY <2>2, <2>4 DEF Standing
  <2>7. QED
    BY <2>5, <2>6
<1>2. ASSUME NEW r \in Requests, Abort(r) PROVE AllDone' /\ Standing
  BY <1>2, EndStands DEF Abort, SerialInv, AnswerInv
<1>3. ASSUME NEW r \in Requests, Work(r) PROVE AllDone' /\ Standing
  BY <1>3, QuietStands, SaveStands, DeleteStands, ReloadStands
<1>4. CASE UNCHANGED <<db, pc, call, hand>>
  BY <1>4 DEF AllDone, Standing
<1>5. QED
  BY <1>1, <1>2, <1>3, <1>4
     DEF Next, Expire, Relink, RestartDb, vars, shared, own

\* As long as calls come one at a time and no acknowledgement is lost, a success
\* means what it says: the row of an update is in the table with every field that
\* was sent, an addition is there, nobody is left under a removed leader.
THEOREM WritesStand ==
  ASSUME OneAtATime, "lostAck" \notin Faults, \A T \in Seeds : Apart(T)
  PROVE  Spec => EffectsStand
<1>1. Init => AllDone
  BY DEF Init, AllDone, Done
<1>2. SerialInv /\ Referential /\ AllDone /\ [Next]_vars => AllDone'
  BY StepStands
<1>3. SerialInv /\ Referential /\ AllDone /\ [Next]_vars =>
        [\A r \in Requests :
           pc[r] # "idle" /\ pc'[r] = "idle" /\ answer'[r].kind = "ok" =>
             EffectStands(call[r], answer'[r].data, db')]_vars
  BY StepStands DEF Standing
<1>4. Spec => []SerialInv
  BY SerialInvariant
<1>5. QED
  BY <1>1, <1>2, <1>3, <1>4, ReferentialIntegrity, PTL DEF Spec, EffectsStand
=============================================================================
