---------------------- MODULE EmployeeDirectory_proofs ----------------------
(***************************************************************************)
(* Two proofs that EmployeeService implements Directory: for any number of *)
(* clients, as long as MySQL does not restart and updates carry every      *)
(* field; and for one client, whatever its updates carry and whichever     *)
(* faults happen.                                                          *)
(*                                                                         *)
(* What an UPDATE writes was put together from a row read earlier. Each    *)
(* step is one of Directory if it is Fitting all the same: a change of the *)
(* row as it is now. A whole update keeps nothing of the row it read but   *)
(* its number, and by IdentityInv the row that has this Id now has that    *)
(* number still. One client has read the row as it is, since nobody else   *)
(* writes, and to make a change twice is to make it once.                  *)
(***************************************************************************)
EXTENDS EmployeeDirectory, EmployeeService_proofs

\* The operations that come by each step.
AtStep(p, op) ==
  /\ p \in {"NumberRule", "Insert", "AddCacheGet", "AddReload"} => op = "add"
  /\ p \in {"EmailRule", "LeaderRule"} => op \in {"add", "update"}
  /\ p \in {"CacheGet", "Read"} => op \in {"get", "auth"}
  /\ p = "CacheSet" => op \in {"get", "auth", "add"}
  /\ p \in {"Invalidate", "Load"} => op \in {"remove", "update"}
  /\ p = "Delete" => op = "remove"
  /\ p \in {"Save", "Reload"} => op = "update"

\* The steps from the first SaveChanges on; before them nothing is repeated.
Saving == {"Insert", "AddCacheGet", "AddReload", "CacheSet", "Delete", "Save", "Reload"}

\* A removal or an update names an Id.
Addressed(c) ==
  c.op \in {"remove", "update"} => \E i \in Ids : c.key = <<"id", i>>

\* A request at step p, with its call, repeats and local variable.
RequestInv(p, c, t, h) ==
  /\ AtStep(p, c.op)
  /\ p \notin Saving => t = 0
  /\ Addressed(c)
  /\ p \in {"Delete", "Save"} => \A e \in h : c.key = <<"id", e.id>>

Orderly == \A r \in Requests : RequestInv(pc[r], call[r], tries[r], hand[r])

\* What an update is about to write is the row as it is, with its fields changed.
Fitting ==
  \A r \in Requests : pc[r] = "Save" =>
    \A e \in hand[r] : e.id \in Live(db) => e.row = D!Changed(call[r], db[e.id])

StageNow == [r \in Requests |-> StageAt(pc[r], call[r].op)]
ReplyNow == [r \in Requests |-> answer[r].kind]

\* What a step has to show: the requests stay in order, and Directory allows it.
Allowed == Orderly' /\ [D!Next]_(D!promised)

-----------------------------------------------------------------------------
(***************************************************************************)
(* The ways a request goes on.                                             *)
(***************************************************************************)

\* Directory has the same table.
LEMMA SameTable ==
  /\ D!Ids = Ids
  /\ \A T : D!Live(T) = Live(T) /\ (D!Consistent(T) <=> Consistent(T))
  /\ \A T, i : D!DeleteRow(T, i) = DeleteRow(T, i)
  /\ \A T, n : D!Follows(T, n) <=> Follows(T, n)
<1>1. D!Ids = Ids
  BY DEF D!Ids, Ids
<1>2. \A T : D!Live(T) = Live(T)
  BY <1>1 DEF D!Live, Live
<1>3. \A T : D!Consistent(T) <=> Consistent(T)
  BY <1>2 DEF D!Consistent, Consistent, D!LeadersExist, LeadersExist,
              D!OneFollowerEach, OneFollowerEach
<1>4. \A T, S : D!ClosedUnderFollowers(T, S) <=> ClosedUnderFollowers(T, S)
  BY <1>2 DEF D!ClosedUnderFollowers, ClosedUnderFollowers
<1>5. \A T, i : D!Doomed(T, i) = Doomed(T, i)
  BY <1>2, <1>4 DEF D!Doomed, Doomed
<1>6. \A T, i : D!DeleteRow(T, i) = DeleteRow(T, i)
  BY <1>1, <1>5 DEF D!DeleteRow, DeleteRow
<1>7. \A T, n : D!Follows(T, n) <=> Follows(T, n)
  BY <1>2 DEF D!Follows, Follows
<1>8. QED
  BY <1>1, <1>2, <1>3, <1>6, <1>7

\* The directory sees nothing of a step that leaves the table, the calls and the
\* stages alone.
LEMMA Unseen ==
  ASSUME UNCHANGED <<db, nextId, call, tries>>, StageNow' = StageNow,
         ReplyNow' = ReplyNow
  PROVE  UNCHANGED D!promised
BY DEF D!promised, StageNow, ReplyNow

\* Every call keeps its place but that of r.
LEMMA FinishOrderly ==
  ASSUME TypeInv, Orderly, NEW r \in Requests, NEW kind, NEW data,
         Finish(r, kind, data)
  PROVE  Orderly'
<1>1. RequestInv("idle", NoCall, 0, {})
  BY DEF RequestInv, AtStep, Addressed, NoCall, Sent
<1>2. \A q \in Requests : IF q = r
        THEN pc'[q] = "idle" /\ call'[q] = NoCall /\ tries'[q] = 0 /\ hand'[q] = {}
        ELSE /\ pc'[q] = pc[q] /\ call'[q] = call[q]
             /\ tries'[q] = tries[q] /\ hand'[q] = hand[q]
  BY DEF Finish, TypeInv, TypeOK
<1>3. QED
  BY <1>1, <1>2 DEF Orderly

LEMMA FinishCloses ==
  ASSUME TypeInv, NEW r \in Requests, NEW kind, NEW data, Finish(r, kind, data)
  PROVE  D!Close(r, kind)
<1>1. \A q \in Requests : StageAt(pc[q], call[q].op)' =
        IF q = r THEN "free" ELSE StageAt(pc[q], call[q].op)
  BY DEF Finish, TypeInv, TypeOK, StageAt
<1>2. StageNow' = [StageNow EXCEPT ![r] = "free"]
  BY <1>1 DEF StageNow
<1>3. \A q \in Requests : answer'[q].kind = IF q = r THEN kind ELSE answer[q].kind
  BY DEF Finish, TypeInv, TypeOK
<1>4. ReplyNow' = [ReplyNow EXCEPT ![r] = kind]
  BY <1>3 DEF ReplyNow
<1>5. QED
  BY <1>2, <1>4 DEF D!Close, Finish, StageNow, ReplyNow

\* The steps that answer a call: why Directory allows the answer.
Due(r, kind) ==
  \/ kind = "error" /\ pc[r] # "idle"
  \/ /\ kind = "ok"
     /\ \/ StageAt(pc[r], call[r].op) = "done"
        \/ call[r].op \in {"get", "auth"} /\ pc[r] \in {"CacheGet", "Read", "CacheSet"}
  \/ /\ kind \in {"bad", "notfound"}
     /\ pc[r] \notin Saving \cup {"idle"}

LEMMA Closing ==
  ASSUME TypeInv, Orderly, NEW r \in Requests, NEW kind, NEW data,
         Finish(r, kind, data), UNCHANGED <<db, nextId>>, Due(r, kind)
  PROVE  Allowed
<1>1. D!Close(r, kind)
  BY FinishCloses
<1>2. D!Answer(r)
  <2>1. CASE kind = "error" /\ pc[r] # "idle"
    BY <1>1, <2>1 DEF D!Answer, StageAt
  <2>2. CASE kind = "ok" /\ StageAt(pc[r], call[r].op) = "done"
    BY <1>1, <2>2 DEF D!Answer
  <2>3. CASE kind = "ok" /\ call[r].op \in {"get", "auth"}
               /\ pc[r] \in {"CacheGet", "Read", "CacheSet"}
    BY <1>1, <2>3 DEF D!Answer, StageAt
  <2>4. CASE kind \in {"bad", "notfound"} /\ pc[r] \notin Saving \cup {"idle"}
    <3>1. tries[r] = 0
      BY <2>4 DEF Orderly, RequestInv
    <3>2. StageAt(pc[r], call[r].op) = "asked"
      BY <2>4 DEF StageAt, Saving
    <3>3. QED
      BY <1>1, <2>4, <3>1, <3>2 DEF D!Answer
  <2>5. QED
    BY <2>1, <2>2, <2>3, <2>4 DEF Due
<1>3. QED
  BY <1>2, FinishOrderly DEF Allowed, D!Next

\* A call that goes on, as its step allows.
LEMMA ContinueOrderly ==
  ASSUME TypeInv, Orderly, NEW r \in Requests, NEW step, NEW T, NEW v,
         Continue(r, step, T, v), RequestInv(step, call[r], tries[r], v)
  PROVE  Orderly'
<1>1. \A q \in Requests :
        /\ call'[q] = call[q] /\ tries'[q] = tries[q]
        /\ pc'[q] = IF q = r THEN step ELSE pc[q]
        /\ hand'[q] = IF q = r THEN v ELSE hand[q]
  BY DEF Continue, TypeInv, TypeOK
<1>2. QED
  BY <1>1 DEF Orderly

LEMMA ContinueStage ==
  ASSUME TypeInv, NEW r \in Requests, NEW step, NEW T, NEW v, Continue(r, step, T, v)
  PROVE  /\ StageNow' = [StageNow EXCEPT ![r] = StageAt(step, call[r].op)]
         /\ ReplyNow' = ReplyNow
         /\ UNCHANGED <<call, tries>>
<1>1. \A q \in Requests : StageAt(pc[q], call[q].op)' =
        IF q = r THEN StageAt(step, call[r].op) ELSE StageAt(pc[q], call[q].op)
  BY DEF Continue, TypeInv, TypeOK, StageAt
<1>2. StageNow' = [StageNow EXCEPT ![r] = StageAt(step, call[r].op)]
  BY <1>1 DEF StageNow
<1>3. QED
  BY <1>2 DEF Continue, ReplyNow

\* A step that only looks something up.
LEMMA Moving ==
  ASSUME TypeInv, Orderly, NEW r \in Requests, NEW step, NEW T, NEW v,
         Continue(r, step, T, v), UNCHANGED <<db, nextId>>,
         RequestInv(step, call[r], tries[r], v),
         StageAt(step, call[r].op) = StageAt(pc[r], call[r].op)
  PROVE  Allowed
<1>1. StageNow' = StageNow
  <2>1. StageNow' = [StageNow EXCEPT ![r] = StageAt(pc[r], call[r].op)]
    BY ContinueStage
  <2>2. QED
    BY <2>1 DEF StageNow
<1>2. UNCHANGED D!promised
  BY <1>1, ContinueStage, Unseen
<1>3. QED
  BY <1>2, ContinueOrderly DEF Allowed

\* A rule that does not end the call.
LEMMA Judging ==
  ASSUME TypeInv, Orderly, NEW r \in Requests, NEW ok, NEW T, NEW next,
         Judge(r, ok, T, next), UNCHANGED <<db, nextId>>,
         RequestInv(next, call[r], tries[r], hand[r]),
         StageAt(next, call[r].op) = StageAt(pc[r], call[r].op)
  PROVE  Allowed
<1>1. \A q \in Requests :
        /\ call'[q] = call[q] /\ tries'[q] = tries[q] /\ hand'[q] = hand[q]
        /\ pc'[q] = IF q = r THEN next ELSE pc[q]
  BY DEF Judge, TypeInv, TypeOK
<1>2. Orderly'
  BY <1>1 DEF Orderly
<1>3. \A q \in Requests : StageAt(pc[q], call[q].op)' = StageAt(pc[q], call[q].op)
  BY <1>1 DEF StageAt
<1>4. StageNow' = StageNow /\ ReplyNow' = ReplyNow
  BY <1>3 DEF StageNow, ReplyNow, Judge
<1>5. UNCHANGED D!promised
  BY <1>4, Unseen DEF Judge
<1>6. QED
  BY <1>2, <1>5 DEF Allowed

\* A statement is acknowledged, and the call goes on to a step after it, or its
\* acknowledgement is lost.
LEMMA Effect ==
  ASSUME TypeInv, Orderly, NEW r \in Requests, NEW step, NEW T, NEW v,
         pc[r] \in {"Insert", "Delete", "Save"},
         \/ /\ Continue(r, step, T, v)
            /\ RequestInv(step, call[r], tries[r], v)
            /\ StageAt(step, call[r].op) = "done"
         \/ Unacknowledged(r)
  PROVE  Orderly' /\ D!Effected(r)
<1>1. CASE /\ Continue(r, step, T, v)
           /\ RequestInv(step, call[r], tries[r], v)
           /\ StageAt(step, call[r].op) = "done"
  <2>1. /\ StageNow' = [StageNow EXCEPT ![r] = "done"] /\ ReplyNow' = ReplyNow
        /\ UNCHANGED <<call, tries>>
    BY <1>1, ContinueStage
  <2>2. D!Effected(r)
    BY <2>1 DEF D!Effected, StageNow, ReplyNow
  <2>3. QED
    BY <1>1, <2>2, ContinueOrderly
<1>2. CASE Finish(r, "error", {}) /\ "lostAck" \in Faults
  BY <1>2, FinishCloses, FinishOrderly DEF D!Effected
<1>3. CASE /\ "lostAck" \in Faults
           /\ tries[r] < MaxRetries
           /\ tries' = [tries EXCEPT ![r] = @ + 1]
           /\ UNCHANGED <<pc, call, ctx, valid, hand, answer>>
  <2>1. StageNow' = StageNow /\ ReplyNow' = ReplyNow
    BY <1>3 DEF StageNow, ReplyNow
  <2>2. D!TryAgain(r)
    BY <1>3, <2>1 DEF D!TryAgain, StageNow, ReplyNow
  <2>3. \A q \in Requests :
          q # r => tries'[q] = tries[q]
    BY <1>3 DEF TypeInv, TypeOK
  <2>4. Orderly'
    BY <1>3, <2>3 DEF Orderly, RequestInv, Saving
  <2>5. QED
    BY <1>3, <2>2, <2>4 DEF D!Effected
<1>4. QED
  BY <1>1, <1>2, <1>3 DEF Unacknowledged

-----------------------------------------------------------------------------
(***************************************************************************)
(* The actions.                                                            *)
(***************************************************************************)

\* What the clients send stays addressed when it is normalised.
LEMMA InputAddressed ==
  ASSUME NEW c \in Inputs
  PROVE  /\ Addressed(Normalised(c))
         /\ AtStep(FirstStep[c.op], Normalised(c).op)
         /\ FirstStep[c.op] \in {"CacheGet", "EmailRule", "Invalidate"}
<1>1. Normalised(c).op = c.op /\ c.op \in {"get", "auth", "add", "remove", "update"}
  BY InputTyped
<1>2. c.op # "add" => Normalised(c) = c
  BY DEF Normalised
<1>3. c \in Calls
  BY InputsAssumption
<1>4. c.op \in {"remove", "update"} => \E i \in Ids : c.key = <<"id", i>>
  BY <1>3 DEF Calls, Lookup, Login, Removal, Hiring, Change, Sent
<1>5. Addressed(Normalised(c))
  BY <1>1, <1>2, <1>4 DEF Addressed
<1>6. QED
  BY <1>1, <1>5 DEF AtStep, FirstStep

LEMMA ReceiveAllowed ==
  ASSUME TypeInv, Orderly, NEW r \in Requests, Receive(r)
  PROVE  Allowed
<1>1. PICK c \in Inputs :
        /\ pc' = [pc EXCEPT ![r] = FirstStep[c.op]]
        /\ call' = [call EXCEPT ![r] = Normalised(c)]
        /\ answer' = [answer EXCEPT ![r] = NoAnswer]
  BY DEF Receive
<1>2. pc[r] = "idle" /\ UNCHANGED <<db, nextId, tries, hand>>
  BY DEF Receive, shared
<1> DEFINE step == FirstStep[c.op]
<1>4. /\ Addressed(Normalised(c)) /\ AtStep(step, Normalised(c).op)
      /\ step \in {"CacheGet", "EmailRule", "Invalidate"}
  BY InputAddressed
<1> HIDE DEF step
<1>5. tries[r] = 0
  BY <1>2 DEF Orderly, RequestInv, Saving
<1>6. \A q \in Requests :
        /\ pc'[q] = IF q = r THEN step ELSE pc[q]
        /\ call'[q] = IF q = r THEN Normalised(c) ELSE call[q]
        /\ answer'[q].kind = IF q = r THEN "none" ELSE answer[q].kind
  BY <1>1 DEF TypeInv, TypeOK, NoAnswer, step
<1>7. RequestInv(step, Normalised(c), tries[r], hand[r])
  BY <1>4, <1>5 DEF RequestInv
<1>8. Orderly'
  BY <1>2, <1>6, <1>7 DEF Orderly
<1>9. \A q \in Requests : StageAt(pc[q], call[q].op)' =
        IF q = r THEN "asked" ELSE StageAt(pc[q], call[q].op)
  BY <1>4, <1>6 DEF StageAt
<1>10. StageNow[r] = "free" /\ StageNow' = [StageNow EXCEPT ![r] = "asked"]
  BY <1>2, <1>9 DEF StageNow, StageAt
<1>11. ReplyNow' = [ReplyNow EXCEPT ![r] = "none"]
  BY <1>6 DEF ReplyNow
<1>12. D!Place(r)
  BY <1>1, <1>2, <1>10, <1>11 DEF D!Place, StageNow, ReplyNow
<1>13. QED
  BY <1>8, <1>12 DEF Allowed, D!Next

LEMMA RulesAllowed ==
  ASSUME TypeInv, Orderly, NEW r \in Requests,
         EmailRule(r) \/ NumberRule(r) \/ LeaderRule(r)
  PROVE  Allowed
<1>1. RequestInv(pc[r], call[r], tries[r], hand[r])
  BY DEF Orderly
<1>2. UNCHANGED <<db, nextId>>
  BY DEF EmailRule, NumberRule, LeaderRule, shared
<1>3. pc[r] \in {"EmailRule", "NumberRule", "LeaderRule"} /\ tries[r] = 0
  BY <1>1 DEF EmailRule, NumberRule, LeaderRule, RequestInv, Saving
<1>4. CASE Finish(r, "bad", {})
  BY <1>2, <1>3, <1>4, Closing DEF Due, Saving
<1>5. ASSUME NEW ok, NEW T, NEW next, Judge(r, ok, T, next),
             \/ next \in {"NumberRule", "Insert"} /\ call[r].op = "add"
             \/ next = "LeaderRule" /\ call[r].op = "add"
             \/ next \in {"EmailRule", "Load"} /\ call[r].op = "update"
      PROVE  Allowed
  <2>1. RequestInv(next, call[r], tries[r], hand[r])
    BY <1>1, <1>3, <1>5 DEF RequestInv, AtStep
  <2>2. StageAt(next, call[r].op) = "asked" /\ StageAt(pc[r], call[r].op) = "asked"
    BY <1>3, <1>5 DEF StageAt
  <2>3. QED
    BY <1>2, <1>5, <2>1, <2>2, Judging
<1>6. CASE EmailRule(r)
  BY <1>4, <1>5, <1>6 DEF EmailRule, Verdict
<1>7. CASE NumberRule(r)
  <2>1. call[r].op = "add"
    BY <1>1, <1>7 DEF NumberRule, RequestInv, AtStep
  <2>2. QED
    BY <1>5, <1>7, <2>1 DEF NumberRule
<1>8. CASE LeaderRule(r)
  BY <1>4, <1>5, <1>8 DEF LeaderRule, Verdict
<1>9. QED
  BY <1>6, <1>7, <1>8

LEMMA InsertAllowed ==
  ASSUME TypeInv, Orderly, NEW r \in Requests, Insert(r)
  PROVE  Allowed
<1>1. RequestInv(pc[r], call[r], tries[r], hand[r]) /\ pc[r] = "Insert"
  BY DEF Orderly, Insert
<1>2. call[r].op = "add" /\ Addressed(call[r])
  BY <1>1 DEF RequestInv, AtStep
<1>3. \/ Continue(r, "AddCacheGet", [ctx[r] EXCEPT ![NewId] = NewRow(call[r])], {})
      \/ Unacknowledged(r)
  BY DEF Insert
<1>4. RequestInv("AddCacheGet", call[r], tries[r], {})
  BY <1>2 DEF RequestInv, AtStep, Saving
<1>5. StageAt("AddCacheGet", call[r].op) = "done"
  BY DEF StageAt
<1>6. Orderly' /\ D!Effected(r)
  BY <1>1, <1>3, <1>4, <1>5, Effect
<1>7. D!Newcomer(call[r]) = NewRow(call[r])
  BY DEF D!Newcomer, NewRow, D!Seal, Seal
<1>8. nextId \in D!Ids
  BY InsertedTyped, <1>1, SameTable DEF Insert, NewId
<1>9. /\ db' = [db EXCEPT ![nextId] = D!Newcomer(call[r])]
      /\ nextId' = nextId + 1 /\ D!Consistent(db')
  BY <1>7, SameTable DEF Insert, InsertedTable, NewId
<1>10. D!Hire(r)
  BY <1>1, <1>2, <1>6, <1>8, <1>9 DEF D!Hire, StageAt
<1>11. QED
  BY <1>6, <1>10 DEF Allowed, D!Next

LEMMA AddingAllowed ==
  ASSUME TypeInv, Orderly, NEW r \in Requests,
         InsertRejected(r) \/ AddCacheGet(r) \/ AddReload(r)
  PROVE  Allowed
<1>1. RequestInv(pc[r], call[r], tries[r], hand[r])
  BY DEF Orderly
<1>2. UNCHANGED <<db, nextId>>
  BY DEF InsertRejected, AddCacheGet, AddReload, shared
<1>3. CASE InsertRejected(r)
  BY <1>2, <1>3, Closing DEF InsertRejected, Due
<1>4. CASE pc[r] = "AddCacheGet" /\ Finish(r, "ok", {})
  BY <1>2, <1>4, Closing DEF Due, StageAt
<1>5. ASSUME NEW step \in {"AddReload", "CacheSet"}, NEW T, NEW v, Continue(r, step, T, v),
             pc[r] \in {"AddCacheGet", "AddReload"}
      PROVE  Allowed
  <2>1. call[r].op = "add"
    BY <1>1, <1>5 DEF RequestInv, AtStep
  <2>2. RequestInv(step, call[r], tries[r], v)
    BY <1>1, <1>5, <2>1 DEF RequestInv, AtStep, Saving
  <2>3. StageAt(step, call[r].op) = "done" /\ StageAt(pc[r], call[r].op) = "done"
    BY <1>5, <2>1 DEF StageAt
  <2>4. QED
    BY <1>2, <1>5, <2>2, <2>3, Moving
<1>6. CASE AddCacheGet(r)
  BY <1>4, <1>5, <1>6 DEF AddCacheGet
<1>7. CASE AddReload(r)
  BY <1>5, <1>7 DEF AddReload
<1>8. QED
  BY <1>3, <1>6, <1>7

LEMMA LookupAllowed ==
  ASSUME TypeInv, Orderly, NEW r \in Requests,
         CacheGet(r) \/ ReadNone(r) \/ ReadOne(r) \/ ReadAll(r)
  PROVE  Allowed
<1>1. RequestInv(pc[r], call[r], tries[r], hand[r])
  BY DEF Orderly
<1>2. UNCHANGED <<db, nextId>> /\ pc[r] \in {"CacheGet", "Read"}
  BY DEF CacheGet, ReadNone, ReadOne, ReadAll, shared
<1>3. call[r].op \in {"get", "auth"} /\ tries[r] = 0
  BY <1>1, <1>2 DEF RequestInv, AtStep, Saving
<1>4. ASSUME NEW kind \in {"ok", "bad", "notfound"}, NEW data, Finish(r, kind, data)
      PROVE  Allowed
  <2>1. Due(r, kind)
    BY <1>2, <1>3, <1>4 DEF Due, Saving
  <2>2. QED
    BY <1>2, <1>4, <2>1, Closing
<1>5. ASSUME NEW e, Compare(r, e) PROVE Allowed
  BY <1>4, <1>5 DEF Compare
<1>6. ASSUME NEW step \in {"Read", "CacheSet"}, NEW T, NEW v, Continue(r, step, T, v)
      PROVE  Allowed
  <2>1. RequestInv(step, call[r], tries[r], v)
    BY <1>1, <1>3, <1>6 DEF RequestInv, AtStep
  <2>2. StageAt(step, call[r].op) = "asked" /\ StageAt(pc[r], call[r].op) = "asked"
    BY <1>2, <1>3, <1>6 DEF StageAt
  <2>3. QED
    BY <1>2, <1>6, <2>1, <2>2, Moving
<1>7. CASE CacheGet(r)
  BY <1>4, <1>5, <1>6, <1>7 DEF CacheGet
<1>8. CASE ReadNone(r)
  BY <1>4, <1>8 DEF ReadNone, NotFound
<1>9. CASE ReadOne(r)
  BY <1>5, <1>6, <1>9 DEF ReadOne
<1>10. CASE ReadAll(r)
  BY <1>6, <1>10 DEF ReadAll
<1>11. QED
  BY <1>7, <1>8, <1>9, <1>10

LEMMA CacheSetAllowed ==
  ASSUME TypeInv, Orderly, NEW r \in Requests, CacheSet(r)
  PROVE  Allowed
<1>1. pc[r] = "CacheSet" /\ UNCHANGED <<db, nextId>>
  BY DEF CacheSet
<1>2. call[r].op \in {"get", "auth", "add"}
  BY <1>1 DEF Orderly, RequestInv, AtStep
<1>3. Due(r, "ok") /\ Due(r, "error")
  BY <1>1, <1>2 DEF Due, StageAt
<1>4. QED
  BY <1>1, <1>3, Closing DEF CacheSet

\* A row found by the Id of a call is the row with that Id.
LEMMA FoundById ==
  ASSUME NEW r \in Requests, Addressed(call[r]), call[r].op \in {"remove", "update"},
         NEW i \in Find(db, call[r].key)
  PROVE  call[r].key = <<"id", i>> /\ i \in Live(db)
<1>1. PICK j \in Ids : call[r].key = <<"id", j>>
  BY DEF Addressed
<1>2. <<"id", j>> \in FiledUnder(EntryOf(db, i)) /\ i \in Live(db)
  BY <1>1 DEF Find
<1>3. EntryOf(db, i).id = i
  BY DEF EntryOf
<1>4. j = i
  BY <1>2, <1>3 DEF FiledUnder, AllKey
<1>5. QED
  BY <1>1, <1>2, <1>4

LEMMA LoadAllowed ==
  ASSUME TypeInv, Orderly, NEW r \in Requests,
         \/ Invalidate(r) \/ LoadNone(r) \/ LoadForDelete(r) \/ LoadForSave(r)
  PROVE  Allowed
<1>1. RequestInv(pc[r], call[r], tries[r], hand[r])
  BY DEF Orderly
<1>2. UNCHANGED <<db, nextId>> /\ pc[r] \in {"Invalidate", "Load"}
  BY DEF Invalidate, LoadNone, LoadForDelete, LoadForSave, shared
<1>3. /\ call[r].op \in {"remove", "update"} /\ tries[r] = 0 /\ Addressed(call[r])
      /\ StageAt(pc[r], call[r].op) = "asked"
  BY <1>1, <1>2 DEF RequestInv, AtStep, Saving, StageAt
<1>4. CASE Invalidate(r)
  <2>1. RequestInv("Load", call[r], tries[r], {})
    BY <1>1, <1>3 DEF RequestInv, AtStep
  <2>2. call[r].op = "update" => RequestInv("LeaderRule", call[r], tries[r], {})
    BY <1>1, <1>3 DEF RequestInv, AtStep
  <2>3. StageAt("Load", call[r].op) = "asked" /\ StageAt("LeaderRule", call[r].op) = "asked"
    BY DEF StageAt
  <2>4. QED
    BY <1>2, <1>3, <1>4, <2>1, <2>2, <2>3, Moving DEF Invalidate
<1>5. CASE LoadNone(r)
  <2>1. Due(r, "notfound") /\ Due(r, "bad")
    BY <1>2 DEF Due, Saving
  <2>2. QED
    BY <1>2, <1>5, <2>1, Closing DEF LoadNone
<1>6. CASE LoadForDelete(r)
  <2>1. PICK i \in Find(db, call[r].key) :
          Continue(r, "Delete", Tracking(r, i), {EntryOf(Tracking(r, i), i)})
    BY <1>6 DEF LoadForDelete
  <2>2. call[r].op = "remove"
    BY <1>6 DEF LoadForDelete
  <2>3. \A e \in {EntryOf(Tracking(r, i), i)} : call[r].key = <<"id", e.id>>
    BY <1>3, FoundById DEF EntryOf
  <2>4. RequestInv("Delete", call[r], tries[r], {EntryOf(Tracking(r, i), i)})
    BY <1>1, <2>2, <2>3 DEF RequestInv, AtStep, Saving
  <2>5. StageAt("Delete", call[r].op) = "asked"
    BY DEF StageAt
  <2>6. QED
    BY <1>2, <1>3, <2>1, <2>4, <2>5, Moving
<1>7. CASE LoadForSave(r)
  <2>1. PICK i \in Find(db, call[r].key) :
          LET T == [Tracking(r, i) EXCEPT ![i] = Merge(call[r], @)]
          IN Continue(r, "Save", T, {EntryOf(T, i)})
    BY <1>7 DEF LoadForSave
  <2> DEFINE T == [Tracking(r, i) EXCEPT ![i] = Merge(call[r], @)]
  <2>2. call[r].op = "update" /\ call[r] \in Call
    BY <1>7, CallTyped DEF LoadForSave
  <2>3. call[r].key = <<"id", i>> /\ i \in Live(db)
    BY <1>3, FoundById
  <2> HIDE DEF T
  <2>7. \A e \in {EntryOf(T, i)} : call[r].key = <<"id", e.id>>
    BY <2>3 DEF EntryOf
  <2>8. RequestInv("Save", call[r], tries[r], {EntryOf(T, i)})
    BY <1>1, <2>2, <2>7 DEF RequestInv, AtStep, Saving
  <2>9. StageAt("Save", call[r].op) = "asked"
    BY DEF StageAt
  <2>10. Continue(r, "Save", T, {EntryOf(T, i)})
    BY <2>1 DEF T
  <2>11. QED
    BY <1>2, <1>3, <2>8, <2>9, <2>10, Moving
<1>8. QED
  BY <1>4, <1>5, <1>6, <1>7

LEMMA DeleteAllowed ==
  ASSUME TypeInv, Orderly, NEW r \in Requests, DeleteMissed(r) \/ Delete(r)
  PROVE  Allowed
<1>1. RequestInv(pc[r], call[r], tries[r], hand[r]) /\ pc[r] = "Delete"
  BY DEF Orderly, Delete, DeleteMissed
<1>2. CASE DeleteMissed(r)
  BY <1>1, <1>2, Closing DEF DeleteMissed, Due, shared
<1>3. CASE Delete(r)
  <2>1. PICK e \in hand[r] : db[e.id] # NoRow /\ db' = DeleteRow(db, e.id)
    BY <1>3 DEF Delete
  <2>2. e \in Entry /\ e.id \in Live(db) /\ call[r].key = <<"id", e.id>>
    BY <1>1, <2>1, CallTyped DEF RequestInv, Entry, Live
  <2>3. call[r].op = "remove" /\ StageAt(pc[r], call[r].op) = "asked"
    BY <1>1 DEF RequestInv, AtStep, StageAt
  <2>4. Finish(r, "ok", hand[r]) \/ Unacknowledged(r)
    BY <1>3 DEF Delete
  <2>5. Orderly' /\ (D!Close(r, "ok") \/ D!Effected(r))
    <3>1. CASE Finish(r, "ok", hand[r])
      BY <3>1, FinishCloses, FinishOrderly
    <3>2. CASE Unacknowledged(r)
      BY <1>1, <3>2, Effect
    <3>3. QED
      BY <2>4, <3>1, <3>2
  <2>6. \E i \in D!Live(db) : call[r].key = <<"id", i>> /\ db' = D!DeleteRow(db, i)
    BY <2>1, <2>2, SameTable
  <2>7. UNCHANGED nextId
    BY <1>3 DEF Delete
  <2>8. D!Remove(r)
    BY <2>3, <2>5, <2>6, <2>7 DEF D!Remove
  <2>9. QED
    BY <2>5, <2>8 DEF Allowed, D!Next
<1>4. QED
  BY <1>2, <1>3

LEMMA SaveAllowed ==
  ASSUME TypeInv, Orderly, Fitting, NEW r \in Requests, Save(r)
  PROVE  Allowed
<1>1. RequestInv(pc[r], call[r], tries[r], hand[r]) /\ pc[r] = "Save"
  BY DEF Orderly, Save
<1>2. PICK e \in hand[r] : \E freed \in SUBSET Released(r, e) :
        /\ freed \cup {e.id} \subseteq Live(db)
        /\ Consistent(SavedTable(e, freed))
        /\ db' = SavedTable(e, freed)
  BY DEF Save
<1>3. PICK freed \in SUBSET Released(r, e) :
        /\ freed \cup {e.id} \subseteq Live(db)
        /\ Consistent(SavedTable(e, freed))
        /\ db' = SavedTable(e, freed)
  BY <1>2
<1> DEFINE i == e.id
           new == D!Changed(call[r], db[i])
<1>4. call[r].op = "update" /\ call[r].key = <<"id", i>> /\ e.row = new
  BY <1>1, <1>3 DEF RequestInv, AtStep, Fitting
<1>5. /\ freed \in SUBSET (D!Live(db) \ {i}) /\ i \in D!Live(db)
      /\ \A j \in freed : new.leader = j
  BY <1>3, <1>4, SameTable DEF Released
<1> HIDE DEF new
<1>6. db' = [j \in D!Ids |->
               IF j = i THEN new
               ELSE IF j \in freed THEN [db[j] EXCEPT !.leader = None] ELSE db[j]]
  BY <1>3, <1>4, SameTable DEF SavedTable
<1>7. D!Consistent(db')
  BY <1>3, SameTable
<1>8. Orderly' /\ D!Effected(r)
  <2>1. RequestInv("Reload", call[r], tries[r], hand[r])
    BY <1>1, <1>4 DEF RequestInv, AtStep, Saving
  <2>2. StageAt("Reload", call[r].op) = "done"
    BY DEF StageAt
  <2>3. Continue(r, "Reload", ctx[r], hand[r]) \/ Unacknowledged(r)
    BY DEF Save
  <2>4. QED
    BY <1>1, <2>1, <2>2, <2>3, Effect
<1>9. StageAt(pc[r], call[r].op) = "asked" /\ UNCHANGED nextId
  BY <1>1 DEF StageAt, Save
<1>10. D!Change(r)
  BY <1>4, <1>5, <1>6, <1>7, <1>8, <1>9 DEF D!Change, new
<1>11. QED
  BY <1>8, <1>10 DEF Allowed, D!Next

LEMMA UpdateAllowed ==
  ASSUME TypeInv, Orderly, NEW r \in Requests,
         SaveMissed(r) \/ SaveRejected(r) \/ Reload(r) \/ Abort(r)
  PROVE  Allowed
<1>1. UNCHANGED <<db, nextId>>
  BY DEF SaveMissed, SaveRejected, Reload, Abort, shared
<1>2. CASE pc[r] # "idle" /\ Finish(r, "error", {})
  BY <1>1, <1>2, Closing DEF Due
<1>3. CASE SaveMissed(r) \/ SaveRejected(r) \/ Abort(r)
  BY <1>2, <1>3 DEF SaveMissed, SaveRejected, Abort
<1>4. CASE Reload(r)
  <2>1. Due(r, "ok")
    BY <1>4 DEF Reload, Due, StageAt
  <2>2. QED
    BY <1>1, <1>4, <2>1, Closing DEF Reload
<1>5. QED
  BY <1>3, <1>4

LEMMA RetryAllowed ==
  ASSUME TypeInv, Orderly, NEW r \in Requests, Retry(r)
  PROVE  Allowed
<1>1. /\ pc[r] \in {"Insert", "Delete", "Save"} /\ tries[r] < MaxRetries
      /\ tries' = [tries EXCEPT ![r] = @ + 1]
      /\ UNCHANGED <<db, nextId, pc, call, hand, answer>>
  BY DEF Retry, shared
<1>2. \A q \in Requests : q # r => tries'[q] = tries[q]
  BY <1>1 DEF TypeInv, TypeOK
<1>3. Orderly'
  BY <1>1, <1>2 DEF Orderly, RequestInv, Saving
<1>4. StageNow' = StageNow /\ ReplyNow' = ReplyNow /\ StageNow[r] = "asked"
  BY <1>1 DEF StageNow, ReplyNow, StageAt
<1>5. D!Repeat(r)
  BY <1>1, <1>4 DEF D!Repeat, D!TryAgain, StageNow, ReplyNow
<1>6. QED
  BY <1>3, <1>5 DEF Allowed, D!Next

LEMMA OutsideAllowed ==
  ASSUME TypeInv, Orderly,
         \/ \E key \in Keys : Expire(key)
         \/ Relink \/ RestartDb \/ UNCHANGED vars
  PROVE  Allowed
<1>1. UNCHANGED <<db, pc, call, tries, hand, answer>>
  BY DEF Expire, Relink, RestartDb, vars, shared, own
<1>2. StageNow' = StageNow /\ ReplyNow' = ReplyNow
  BY <1>1 DEF StageNow, ReplyNow
<1>3. Orderly'
  BY <1>1 DEF Orderly
<1>4. CASE UNCHANGED nextId
  BY <1>1, <1>2, <1>3, <1>4, Unseen DEF Allowed
<1>5. CASE RestartDb
  <2>1. "restart" \in Faults /\ D!Follows(db, nextId')
    BY <1>5, SameTable DEF RestartDb
  <2>2. D!Forget
    BY <1>1, <1>2, <2>1 DEF D!Forget, StageNow, ReplyNow
  <2>3. QED
    BY <1>3, <2>2 DEF Allowed, D!Next
<1>6. QED
  BY <1>4, <1>5 DEF Expire, Relink, vars, shared

LEMMA StepAllowed ==
  ASSUME TypeInv, Orderly, Fitting, [Next]_vars
  PROVE  Allowed
<1>1. ASSUME NEW r \in Requests, Work(r) PROVE Allowed
  BY <1>1, RulesAllowed, AddingAllowed, InsertAllowed, LookupAllowed,
     CacheSetAllowed, LoadAllowed, DeleteAllowed, SaveAllowed, UpdateAllowed,
     RetryAllowed
     DEF Work
<1>2. QED
  BY <1>1, ReceiveAllowed, UpdateAllowed, OutsideAllowed DEF Next

LEMMA InitAllowed == Init => Orderly /\ D!Init
<1> SUFFICES ASSUME Init PROVE Orderly /\ D!Init
  OBVIOUS
<1>1. RequestInv("idle", NoCall, 0, {})
  BY DEF RequestInv, AtStep, Addressed, NoCall, Sent
<1>2. \A r \in Requests : /\ pc[r] = "idle" /\ call[r] = NoCall /\ tries[r] = 0
                          /\ hand[r] = {} /\ answer[r].kind = "none"
  BY DEF Init, NoAnswer
<1>3. Orderly
  BY <1>1, <1>2 DEF Orderly
<1>4. /\ StageNow = [r \in Requests |-> "free"]
      /\ ReplyNow = [r \in Requests |-> "none"]
  BY <1>2 DEF StageNow, ReplyNow, StageAt
<1>5. D!Init
  BY <1>4, SameTable DEF D!Init, Init, StageNow, ReplyNow
<1>6. QED
  BY <1>3, <1>5

-----------------------------------------------------------------------------
(***************************************************************************)
(* What an update writes.                                                  *)
(***************************************************************************)

\* What UpdateAsync assigns is the change the directory makes.
LEMMA MergeIsChange ==
  ASSUME NEW c \in Call, NEW row \in Row
  PROVE  Merge(c, row) = D!Changed(c, row)
<1> DEFINE m == Merge(c, row)
           d == D!Changed(c, row)
<1>1. m \in Row
  BY MergeTyped
<1>2. m = [email |-> m.email, number |-> m.number, leader |-> m.leader,
           password |-> m.password]
  BY <1>1 DEF Row
<1>3. m.email = d.email /\ m.number = d.number
  BY DEF Merge, Row, D!Changed, D!Given, Or
<1>4. m.leader = d.leader
  BY DEF Merge, Row, D!Changed, D!Given, Or
<1>5. m.password = d.password
  BY DEF Merge, Row, D!Changed, D!Plain, Plain
<1>6. d = [email |-> d.email, number |-> d.number, leader |-> d.leader,
           password |-> d.password]
  BY DEF D!Changed
<1>7. QED
  BY <1>2, <1>3, <1>4, <1>5, <1>6

\* A request that is left as it is, and one whose call goes on, but not to Save,
\* or ends.
Kept(q) == pc'[q] = pc[q] /\ call'[q] = call[q] /\ hand'[q] = hand[q]
Moved(q) == call'[q] \in {call[q], NoCall} /\ pc'[q] # "Save"

\* No other way leads to Save but the merge of LoadForSave.
Goes(q) ==
  \/ Kept(q)
  \/ Moved(q)
  \/ LoadForSave(q) /\ call'[q] = call[q]
  \/ pc'[q] # "Save" /\ \E c \in Inputs : call'[q] = Normalised(c)

OthersKept(q) == \A s \in Requests \ {q} : Kept(s)

LEMMA FinishMoves ==
  ASSUME TypeInv, NEW q \in Requests, NEW kind, NEW data, Finish(q, kind, data)
  PROVE  Goes(q) /\ OthersKept(q)
<1>1. Moved(q) /\ OthersKept(q)
  BY DEF Finish, TypeInv, TypeOK, Moved, OthersKept, Kept
<1>2. QED
  BY <1>1 DEF Goes

LEMMA ContinueMoves ==
  ASSUME TypeInv, NEW q \in Requests, NEW step, NEW T, NEW v, Continue(q, step, T, v)
  PROVE  /\ call'[q] = call[q] /\ OthersKept(q)
         /\ step # "Save" => Goes(q)
<1>1. call'[q] = call[q] /\ pc'[q] = step /\ OthersKept(q)
  BY DEF Continue, TypeInv, TypeOK, OthersKept, Kept
<1>2. QED
  BY <1>1 DEF Goes, Moved

LEMMA JudgeMoves ==
  ASSUME TypeInv, NEW q \in Requests, NEW ok, NEW T, NEW next, Judge(q, ok, T, next),
         next # "Save"
  PROVE  Goes(q) /\ OthersKept(q)
<1>1. call'[q] = call[q] /\ pc'[q] = next /\ OthersKept(q)
  BY DEF Judge, TypeInv, TypeOK, OthersKept, Kept
<1>2. QED
  BY <1>1 DEF Goes, Moved

LEMMA NothingMoves ==
  ASSUME UNCHANGED <<pc, call, hand>>, NEW q \in Requests
  PROVE  Goes(q) /\ OthersKept(q)
BY DEF Goes, OthersKept, Kept

LEMMA UnacknowledgedMoves ==
  ASSUME TypeInv, NEW q \in Requests, Unacknowledged(q)
  PROVE  Goes(q) /\ OthersKept(q)
BY FinishMoves, NothingMoves DEF Unacknowledged

LEMMA ReceiveMoves ==
  ASSUME TypeInv, NEW q \in Requests, Receive(q)
  PROVE  Goes(q) /\ OthersKept(q)
<1>1. PICK c \in Inputs :
        /\ pc' = [pc EXCEPT ![q] = FirstStep[c.op]]
        /\ call' = [call EXCEPT ![q] = Normalised(c)]
  BY DEF Receive
<1>2. FirstStep[c.op] # "Save"
  BY InputAddressed
<1>3. pc'[q] # "Save" /\ call'[q] = Normalised(c)
  BY <1>1, <1>2 DEF TypeInv, TypeOK
<1>4. UNCHANGED hand
  BY DEF Receive
<1>5. OthersKept(q)
  BY <1>1, <1>4 DEF TypeInv, TypeOK, OthersKept, Kept
<1>6. QED
  BY <1>3, <1>5 DEF Goes

LEMMA WorkMoves ==
  ASSUME TypeInv, NEW q \in Requests, Work(q)
  PROVE  Goes(q) /\ OthersKept(q)
<1> DEFINE Claim == Goes(q) /\ OthersKept(q)
<1>1. ASSUME NEW kind, NEW data, Finish(q, kind, data) PROVE Claim
  BY <1>1, FinishMoves
<1>2. ASSUME NEW step, NEW T, NEW v, Continue(q, step, T, v), step # "Save" PROVE Claim
  BY <1>2, ContinueMoves
<1>3. ASSUME NEW ok, NEW T, NEW next, Judge(q, ok, T, next), next # "Save" PROVE Claim
  BY <1>3, JudgeMoves
<1>4. Unacknowledged(q) => Claim
  BY UnacknowledgedMoves
<1>5. LoadForSave(q) => Claim
  <2>1. ASSUME LoadForSave(q)
        PROVE  \E T, v : Continue(q, "Save", T, v)
    BY <2>1 DEF LoadForSave
  <2>2. LoadForSave(q) => call'[q] = call[q] /\ OthersKept(q)
    BY <2>1, ContinueMoves
  <2>3. QED
    BY <2>2 DEF Goes
<1>6. Retry(q) => Claim
  BY NothingMoves DEF Retry
<1>7. CASE EmailRule(q)
  BY <1>1, <1>3, <1>7 DEF EmailRule, Verdict
<1>8. CASE NumberRule(q)
  BY <1>3, <1>8 DEF NumberRule
<1>9. CASE LeaderRule(q)
  <2>1. PICK T : \/ Verdict(q, LeaderThere(q), T, "Insert")
                 \/ Judge(q, LeaderThere(q), T, "EmailRule")
    BY <1>9 DEF LeaderRule
  <2>2. QED
    BY <1>1, <1>3, <2>1 DEF Verdict
<1>10. CASE InsertRejected(q) \/ Insert(q)
  BY <1>1, <1>2, <1>4, <1>10 DEF InsertRejected, Insert
<1>11. CASE AddCacheGet(q) \/ AddReload(q)
  BY <1>1, <1>2, <1>11 DEF AddCacheGet, AddReload
<1>12. CASE CacheGet(q) \/ ReadNone(q)
  BY <1>1, <1>2, <1>12 DEF CacheGet, ReadNone, Compare
<1>13. CASE ReadOne(q)
  BY <1>1, <1>2, <1>13 DEF ReadOne, Compare
<1>14. CASE ReadAll(q) \/ CacheSet(q)
  BY <1>1, <1>2, <1>14 DEF ReadAll, CacheSet
<1>15. CASE Invalidate(q) \/ LoadNone(q) \/ LoadForDelete(q)
  BY <1>1, <1>2, <1>15 DEF Invalidate, LoadNone, LoadForDelete
<1>16. CASE DeleteMissed(q) \/ Delete(q)
  BY <1>1, <1>4, <1>16 DEF DeleteMissed, Delete
<1>17. CASE SaveMissed(q) \/ SaveRejected(q) \/ Reload(q)
  BY <1>1, <1>17 DEF SaveMissed, SaveRejected, Reload
<1>18. CASE Save(q)
  BY <1>2, <1>4, <1>18 DEF Save
<1>19. QED
  BY <1>5, <1>6, <1>7, <1>8, <1>9, <1>10, <1>11, <1>12, <1>13, <1>14, <1>15, <1>16,
     <1>17, <1>18 DEF Work

LEMMA StepMoves ==
  ASSUME TypeInv, [Next]_vars, NEW r \in Requests
  PROVE  Goes(r)
<1>1. CASE \E q \in Requests : Receive(q) \/ Work(q) \/ Abort(q)
  <2>1. PICK q \in Requests : Receive(q) \/ Work(q) \/ Abort(q)
    BY <1>1
  <2>2. Goes(q) /\ OthersKept(q)
    BY <2>1, ReceiveMoves, WorkMoves, FinishMoves DEF Abort
  <2>3. QED
    BY <2>2 DEF OthersKept, Goes
<1>2. CASE UNCHANGED <<pc, call, hand>>
  BY <1>2, NothingMoves
<1>3. QED
  BY <1>1, <1>2 DEF Next, Expire, Relink, RestartDb, vars, own

-----------------------------------------------------------------------------
(***************************************************************************)
(* Whole updates, of any number of clients.                                *)
(***************************************************************************)

\* The row is the one the update c asks for, whatever its number.
AsAsked(c, row) ==
  /\ row.email = c.email
  /\ row.leader = IF c.leader = 0 THEN None ELSE c.leader
  /\ row.password = Plain(c.word)

\* Every update carries all its fields, and so does the row it is about to write.
Wholes ==
  \A r \in Requests : /\ Whole(call[r])
                      /\ pc[r] = "Save" => \A e \in hand[r] : AsAsked(call[r], e.row)

\* A whole update leaves nothing of the row but its number.
LEMMA WholeMerge ==
  ASSUME NEW c, c.op = "update", Whole(c), NEW row \in Row
  PROVE  AsAsked(c, Merge(c, row))
<1>1. None \notin {c.email, c.leader, c.word}
  BY DEF Whole
<1>2. /\ Merge(c, row).email = Or(c.email, row.email)
      /\ Merge(c, row).leader = IF c.leader = 0 THEN None ELSE Or(c.leader, row.leader)
      /\ Merge(c, row).password = IF c.word = None THEN row.password ELSE Plain(c.word)
  BY DEF Merge, Row
<1>3. QED
  BY <1>1, <1>2 DEF AsAsked, Or

\* What LoadForSave keeps in hand: the row it read, with the call's fields merged in.
LEMMA Merged ==
  ASSUME TypeInv, Orderly, NEW r \in Requests, LoadForSave(r)
  PROVE  \E i \in Live(db) :
           /\ Tracking(r, i)[i] \in Row
           /\ hand'[r] = {[id |-> i, row |-> Merge(call[r], Tracking(r, i)[i])]}
           /\ call'[r] = call[r] /\ call[r].op = "update" /\ pc[r] = "Load"
           /\ UNCHANGED shared
<1>1. PICK i \in Find(db, call[r].key) :
        LET T == [Tracking(r, i) EXCEPT ![i] = Merge(call[r], @)]
        IN Continue(r, "Save", T, {EntryOf(T, i)})
  BY DEF LoadForSave
<1> DEFINE T == [Tracking(r, i) EXCEPT ![i] = Merge(call[r], @)]
<1>2. i \in Live(db)
  BY FindTyped
<1>3. Tracking(r, i)[i] \in Row /\ Tracking(r, i) \in Table /\ i \in Ids
  BY <1>2, TrackingTyped DEF TypeInv, Live
<1>4. T[i] = Merge(call[r], Tracking(r, i)[i])
  BY <1>3 DEF Table
<1>5. Continue(r, "Save", T, {EntryOf(T, i)})
  BY <1>1
<1> HIDE DEF T
<1>6. hand'[r] = {EntryOf(T, i)} /\ call'[r] = call[r]
  BY <1>5 DEF Continue, TypeInv, TypeOK
<1>7. EntryOf(T, i) = [id |-> i, row |-> Merge(call[r], Tracking(r, i)[i])]
  BY <1>4 DEF EntryOf
<1>8. call[r].op = "update" /\ pc[r] = "Load" /\ UNCHANGED shared
  BY DEF LoadForSave
<1>9. QED
  BY <1>2, <1>3, <1>6, <1>7, <1>8

LEMMA StepWhole ==
  ASSUME \A c \in Inputs : Whole(c), TypeInv, Orderly, Wholes, [Next]_vars
  PROVE  Wholes'
<1> SUFFICES ASSUME NEW r \in Requests
             PROVE  /\ Whole(call'[r])
                    /\ pc'[r] = "Save" => \A e \in hand'[r] : AsAsked(call'[r], e.row)
  BY DEF Wholes, Whole, AsAsked
<1>1. Whole(NoCall)
  BY DEF Whole, NoCall, Sent
<1>2. \A c \in Inputs : Whole(Normalised(c))
  <2>1. TAKE c \in Inputs
  <2>2. Whole(c) /\ Normalised(c).op = c.op
    BY InputTyped
  <2>3. c.op # "add" => Normalised(c) = c
    BY DEF Normalised
  <2>4. QED
    BY <2>2, <2>3 DEF Whole
<1>3. Whole(call[r])
  BY DEF Wholes
<1>4. CASE Kept(r)
  BY <1>3, <1>4 DEF Kept, Wholes
<1>5. CASE Moved(r)
  BY <1>1, <1>3, <1>5 DEF Moved
<1>6. CASE LoadForSave(r) /\ call'[r] = call[r]
  <2>1. PICK i \in Live(db) :
          /\ Tracking(r, i)[i] \in Row
          /\ hand'[r] = {[id |-> i, row |-> Merge(call[r], Tracking(r, i)[i])]}
          /\ call[r].op = "update"
    BY <1>6, Merged
  <2>2. AsAsked(call[r], Merge(call[r], Tracking(r, i)[i]))
    BY <1>3, <2>1, WholeMerge
  <2>3. QED
    BY <1>3, <1>6, <2>1, <2>2
<1>7. CASE pc'[r] # "Save" /\ \E c \in Inputs : call'[r] = Normalised(c)
  BY <1>2, <1>7
<1>8. QED
  BY <1>4, <1>5, <1>6, <1>7, StepMoves DEF Goes

\* The number of the row in hand is that of the row in the table.
LEMMA WholeFits ==
  ASSUME IdentityInv, Orderly, Wholes
  PROVE  Fitting
<1> SUFFICES ASSUME NEW r \in Requests, pc[r] = "Save", NEW e \in hand[r], e.id \in Live(db)
             PROVE  e.row = D!Changed(call[r], db[e.id])
  BY DEF Fitting
<1>1. RequestInv("Save", call[r], tries[r], hand[r])
  BY DEF Orderly
<1>2. call[r].op = "update" /\ AsAsked(call[r], e.row) /\ Whole(call[r])
  BY <1>1 DEF RequestInv, AtStep, Wholes
<1>3. e \in Entry /\ db \in Table /\ e.id \in Ids
  BY CallTyped DEF IdentityInv, Entry
<1>4. e.row.number = db[e.id].number
  <2>1. EntryOf(db, e.id) \in Entries(db)
    BY DEF Entries
  <2>2. EntryOf(db, e.id) \in Sightings
    BY <2>1 DEF Sightings
  <2>3. e \in Sightings
    <3>1. e \in OnShow(r)
      BY DEF OnShow
    <3>2. e \in UNION {OnShow(q) : q \in Requests}
      BY <3>1
    <3>3. QED
      BY <3>2 DEF Sightings
  <2>4. QED
    BY <2>2, <2>3 DEF IdentityInv, OneEmployeePerId, EntryOf
<1>5. D!Changed(call[r], db[e.id]) =
        [email |-> call[r].email, number |-> db[e.id].number,
         leader |-> IF call[r].leader = 0 THEN None ELSE call[r].leader,
         password |-> Plain(call[r].word)]
  BY <1>2 DEF D!Changed, D!Given, D!Plain, Plain, Whole
<1>6. e.row = [email |-> e.row.email, number |-> e.row.number,
               leader |-> e.row.leader, password |-> e.row.password]
  BY <1>3 DEF Entry, Row
<1>7. QED
  BY <1>2, <1>4, <1>5, <1>6 DEF AsAsked

DirectoryInv == IdentityInv /\ Orderly /\ Wholes

LEMMA InitWhole == Init => Wholes
BY DEF Init, Wholes, Whole, NoCall, Sent

\* The employee operations are those of an atomic register: unless MySQL
\* restarts, and where every update carries all its fields, each step of any
\* number of calls, whatever the cache holds and whichever acknowledgement is
\* lost, is one step of Directory or none it can see.
THEOREM ImplementsDirectory ==
  ASSUME "restart" \notin Faults, \A c \in Inputs : Whole(c)
  PROVE  Spec => AtomicDirectory
<1>1. DirectoryInv /\ [Next]_vars => DirectoryInv' /\ [D!Next]_(D!promised)
  <2> SUFFICES ASSUME DirectoryInv, [Next]_vars
               PROVE  DirectoryInv' /\ [D!Next]_(D!promised)
    OBVIOUS
  <2>1. IdentityInv /\ Orderly /\ Wholes /\ TypeInv
    BY DEF DirectoryInv, IdentityInv
  <2>2. IdentityInv'
    BY <2>1, StepIdentity
  <2>3. Allowed
    BY <2>1, WholeFits, StepAllowed
  <2>4. Wholes'
    BY <2>1, StepWhole
  <2>5. QED
    BY <2>2, <2>3, <2>4 DEF DirectoryInv, Allowed
<1>2. Init => DirectoryInv /\ D!Init
  BY InitIdentity, InitAllowed, InitWhole DEF DirectoryInv
<1>3. QED
  BY <1>1, <1>2, PTL DEF Spec, AtomicDirectory, D!Spec

-----------------------------------------------------------------------------
(***************************************************************************)
(* One client at a time, whatever its updates carry.                       *)
(***************************************************************************)

\* The steps at which nothing was written for the call, nor its row changed.
Early == {"idle", "EmailRule", "NumberRule", "LeaderRule", "Invalidate", "Load"}

\* Until then a context tracks rows as they are in the table.
Mirrored == \A r \in Requests : pc[r] \in Early => Mirrors(ctx[r], db)

LEMMA FinishMirrors ==
  ASSUME TypeInv, NEW r \in Requests, NEW kind, NEW data, Finish(r, kind, data)
  PROVE  Mirrors(ctx'[r], db')
BY DEF Finish, TypeInv, TypeOK, Mirrors, EmptyTable

\* A call that goes on past the early steps has nothing to mirror.
LEMMA LateMirrors ==
  ASSUME TypeInv, NEW r \in Requests, NEW step, NEW T, NEW v, Continue(r, step, T, v)
  PROVE  pc'[r] = step /\ ctx'[r] = T
BY DEF Continue, TypeInv, TypeOK

LEMMA UnacknowledgedMirrors ==
  ASSUME TypeInv, NEW r \in Requests, Unacknowledged(r), pc[r] \notin Early
  PROVE  pc'[r] \in Early => Mirrors(ctx'[r], db')
BY FinishMirrors DEF Unacknowledged

LEMMA RulesMirror ==
  ASSUME TypeInv, Mirrored, NEW r \in Requests,
         EmailRule(r) \/ NumberRule(r) \/ LeaderRule(r)
  PROVE  pc'[r] \in Early => Mirrors(ctx'[r], db')
<1>1. Mirrors(ctx[r], db) /\ ctx[r] \in Table /\ UNCHANGED db
  BY DEF EmailRule, NumberRule, LeaderRule, shared, Mirrored, Early, TypeInv, TypeOK
<1>2. \A kind, data : Finish(r, kind, data) => Mirrors(ctx'[r], db')
  BY FinishMirrors
<1>3. ASSUME NEW ok, NEW T, NEW next, Judge(r, ok, T, next), Mirrors(T, db)
      PROVE  Mirrors(ctx'[r], db')
  <2>1. ctx'[r] = T
    BY <1>3 DEF Judge, TypeInv, TypeOK
  <2>2. QED
    BY <1>1, <1>3, <2>1
<1>4. CASE EmailRule(r) \/ NumberRule(r)
  BY <1>1, <1>2, <1>3, <1>4 DEF EmailRule, NumberRule, Verdict
<1>5. CASE LeaderRule(r)
  <2>1. Mirrors(Tracking(r, call[r].leader), db)
    BY <1>1, TrackingMirrors
  <2>2. QED
    BY <1>1, <1>2, <1>3, <1>5, <2>1 DEF LeaderRule, Verdict
<1>6. QED
  BY <1>4, <1>5

LEMMA WorkMirrors ==
  ASSUME TypeInv, Mirrored, NEW r \in Requests, Work(r)
  PROVE  pc'[r] \in Early => Mirrors(ctx'[r], db')
<1> DEFINE Claim == pc'[r] \in Early => Mirrors(ctx'[r], db')
<1>1. ASSUME NEW kind, NEW data, Finish(r, kind, data) PROVE Claim
  BY <1>1, FinishMirrors
<1>2. ASSUME NEW step, NEW T, NEW v, Continue(r, step, T, v), step \notin Early PROVE Claim
  BY <1>2, LateMirrors
<1>3. ASSUME pc[r] \in {"Insert", "Delete", "Save"}, Unacknowledged(r) PROVE Claim
  BY <1>3, UnacknowledgedMirrors DEF Early
<1>4. {"Insert", "AddCacheGet", "AddReload", "Read", "CacheSet", "Delete", "Save", "Reload"}
        \cap Early = {}
  BY DEF Early
<1>5. CASE EmailRule(r) \/ NumberRule(r) \/ LeaderRule(r)
  BY <1>5, RulesMirror
<1>6. CASE Retry(r)
  <2>1. pc'[r] \in {"Insert", "Delete", "Save"}
    BY <1>6 DEF Retry
  <2>2. QED
    BY <1>4, <2>1
<1>7. CASE Invalidate(r)
  <2>1. UNCHANGED db /\ \E step, v : Continue(r, step, ctx[r], v)
    BY <1>7 DEF Invalidate
  <2>2. ctx'[r] = ctx[r]
    BY <2>1, LateMirrors
  <2>3. Mirrors(ctx[r], db)
    BY <1>7 DEF Invalidate, Mirrored, Early
  <2>4. QED
    BY <2>1, <2>2, <2>3
<1>8. CASE InsertRejected(r) \/ Insert(r)
  BY <1>1, <1>2, <1>3, <1>4, <1>8 DEF InsertRejected, Insert
<1>9. CASE AddCacheGet(r) \/ AddReload(r)
  BY <1>1, <1>2, <1>4, <1>9 DEF AddCacheGet, AddReload
<1>10. CASE CacheGet(r) \/ ReadNone(r)
  BY <1>1, <1>2, <1>4, <1>10 DEF CacheGet, ReadNone, Compare
<1>11. CASE ReadOne(r)
  BY <1>1, <1>2, <1>4, <1>11 DEF ReadOne, Compare
<1>12. CASE ReadAll(r) \/ CacheSet(r)
  BY <1>1, <1>2, <1>4, <1>12 DEF ReadAll, CacheSet
<1>13. CASE LoadNone(r) \/ LoadForDelete(r)
  BY <1>1, <1>2, <1>4, <1>13 DEF LoadNone, LoadForDelete
<1>14. CASE LoadForSave(r)
  BY <1>2, <1>4, <1>14 DEF LoadForSave
<1>15. CASE DeleteMissed(r) \/ Delete(r)
  BY <1>1, <1>3, <1>15 DEF DeleteMissed, Delete
<1>16. CASE SaveMissed(r) \/ SaveRejected(r) \/ Reload(r)
  BY <1>1, <1>16 DEF SaveMissed, SaveRejected, Reload
<1>17. CASE Save(r)
  BY <1>2, <1>3, <1>4, <1>17 DEF Save
<1>18. QED
  BY <1>5, <1>6, <1>7, <1>8, <1>9, <1>10, <1>11, <1>12, <1>13, <1>14, <1>15, <1>16,
     <1>17 DEF Work

LEMMA StepMirrored ==
  ASSUME OneAtATime, TypeInv, Mirrored, [Next]_vars
  PROVE  Mirrored'
<1> SUFFICES ASSUME NEW r \in Requests
             PROVE  pc'[r] \in Early => Mirrors(ctx'[r], db')
  BY DEF Mirrored, Mirrors
<1>1. CASE Receive(r)
  <2>1. UNCHANGED <<db, ctx>> /\ pc[r] = "idle"
    BY <1>1 DEF Receive, shared
  <2>2. QED
    BY <2>1 DEF Mirrored, Early
<1>2. CASE Work(r)
  BY <1>2, WorkMirrors
<1>3. CASE Abort(r)
  BY <1>3, FinishMirrors DEF Abort
<1>4. CASE UNCHANGED <<db, pc, ctx>>
  BY <1>4 DEF Mirrored
<1>5. \A q \in Requests : q = r
  BY DEF OneAtATime
<1>6. QED
  BY <1>1, <1>2, <1>3, <1>4, <1>5 DEF Next, Expire, Relink, RestartDb, vars, shared, own

\* A change made twice is a change made once.
LEMMA ChangedTwice ==
  ASSUME NEW c \in Call, NEW row \in Row
  PROVE  D!Changed(c, D!Changed(c, row)) = D!Changed(c, row)
<1>1. Merge(c, row) \in Row
  BY MergeTyped
<1>2. QED
  BY <1>1, MergeIsChange, MergeTwice

LEMMA StepFits ==
  ASSUME OneAtATime, TypeInv, Orderly, Mirrored, Fitting, [Next]_vars
  PROVE  Fitting'
<1> SUFFICES ASSUME NEW r \in Requests, pc'[r] = "Save", NEW e \in hand'[r],
                    e.id \in Live(db')
             PROVE  e.row = D!Changed(call'[r], db'[e.id])
  BY DEF Fitting, Live
<1>1. call[r] \in Call
  BY CallTyped
<1>2. CASE LoadForSave(r)
  <2>1. PICK i \in Live(db) :
          /\ Tracking(r, i)[i] \in Row
          /\ hand'[r] = {[id |-> i, row |-> Merge(call[r], Tracking(r, i)[i])]}
          /\ call'[r] = call[r] /\ pc[r] = "Load" /\ UNCHANGED shared
    BY <1>2, Merged
  <2>2. Mirrors(ctx[r], db) /\ ctx[r] \in Table /\ i \in Ids
    BY <2>1 DEF Mirrored, Early, TypeInv, TypeOK, Live
  <2>3. Tracking(r, i)[i] \in {NoRow, db[i]}
    BY <2>2, TrackingMirrors DEF Mirrors
  <2>4. Tracking(r, i)[i] = db[i]
    BY <2>1, <2>3, NoRowAssumption
  <2>5. e = [id |-> i, row |-> Merge(call[r], db[i])] /\ db' = db
    BY <2>1, <2>4 DEF shared
  <2>6. QED
    BY <1>1, <2>1, <2>4, <2>5, MergeIsChange
<1>3. CASE Kept(r)
  <2>1. pc[r] = "Save" /\ call'[r] = call[r] /\ hand'[r] = hand[r]
    BY <1>3 DEF Kept
  <2>2. \A d \in hand[r] : call[r].key = <<"id", d.id>> /\ d \in Entry
    BY <2>1, CallTyped DEF Orderly, RequestInv
  <2>3. CASE UNCHANGED db
    BY <2>1, <2>3 DEF Fitting
  <2>4. CASE Save(r)
    <3>1. PICK d \in hand[r] : \E freed \in SUBSET Released(r, d) :
            d.id \in Live(db) /\ db' = SavedTable(d, freed)
      BY <2>4 DEF Save
    <3>2. d.id \in Live(db) /\ d.id \in Ids /\ db'[d.id] = d.row
      BY <3>1 DEF SavedTable, Live
    <3>3. e.id = d.id
      BY <2>1, <2>2
    <3>4. d.row = D!Changed(call[r], db[d.id]) /\ e.row = d.row
      BY <2>1, <3>2, <3>3 DEF Fitting
    <3>5. db[d.id] \in Row
      BY <3>2 DEF Live, TypeInv, TypeOK, Table
    <3>6. QED
      BY <1>1, <2>1, <3>2, <3>3, <3>4, <3>5, ChangedTwice
  <2>5. ~Insert(r) /\ ~Delete(r)
    BY <2>1 DEF Insert, Delete
  <2>6. QED
    BY <2>3, <2>4, <2>5, DbChanges DEF OneAtATime
<1>4. Goes(r) /\ ~Moved(r)
  BY StepMoves DEF Moved
<1>5. QED
  BY <1>2, <1>3, <1>4 DEF Goes

SoloInv == TypeInv /\ Orderly /\ Mirrored /\ Fitting

LEMMA InitSolo == Init => Mirrored /\ Fitting
<1> SUFFICES ASSUME Init PROVE Mirrored /\ Fitting
  OBVIOUS
<1>1. \A r \in Requests : pc[r] = "idle" /\ ctx[r] = EmptyTable
  BY DEF Init
<1>2. Mirrored
  BY <1>1 DEF Mirrored, Mirrors, EmptyTable
<1>3. Fitting
  BY <1>1 DEF Fitting
<1>4. QED
  BY <1>2, <1>3

\* For one client at a time the operations are those of an atomic register
\* whichever fields its updates carry and whichever faults happen: MySQL may
\* restart and reuse an Id, and an UPDATE repeated after a lost acknowledgement
\* is the change made once.
THEOREM OneClientIsAtomic ==
  ASSUME OneAtATime
  PROVE  Spec => AtomicDirectory
<1>1. SoloInv /\ [Next]_vars => SoloInv' /\ [D!Next]_(D!promised)
  <2> SUFFICES ASSUME SoloInv, [Next]_vars
               PROVE  SoloInv' /\ [D!Next]_(D!promised)
    OBVIOUS
  <2>1. TypeInv /\ Orderly /\ Mirrored /\ Fitting
    BY DEF SoloInv
  <2>2. TypeInv'
    BY <2>1, StepTyped
  <2>3. Allowed
    BY <2>1, StepAllowed
  <2>4. Mirrored' /\ Fitting'
    BY <2>1, StepMirrored, StepFits
  <2>5. QED
    BY <2>2, <2>3, <2>4 DEF SoloInv, Allowed
<1>2. Init => SoloInv /\ D!Init
  BY InitTyped, InitAllowed, InitSolo DEF SoloInv
<1>3. QED
  BY <1>1, <1>2, PTL DEF Spec, AtomicDirectory, D!Spec
=============================================================================
