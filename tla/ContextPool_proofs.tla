------------------------- MODULE ContextPool_proofs -------------------------
(***************************************************************************)
(* Proofs about ContextPool: its types, that a request keeps its context   *)
(* until somebody gives it back late, that no lease is forgotten, that the *)
(* subscribers hear of committed changes only, and what a commit writes.   *)
(***************************************************************************)
EXTENDS ContextPool, TLAPS

(* Only a request that is being answered has fields at work.               *)
AtWork ==
    \A r \in Requests : \A n \in 1 .. MaxFields :
        at[<<r, n>>] \in {"reading", "changed", "saved"}
            => stage[r] = "open" /\ n <= fields[r]

(* A scope has a context from its opening on.                              *)
HasContext == \A r \in Requests : stage[r] # "new" => ctx[r] \in Contexts

(* A change is tracked until it is saved, by whoever saves it...           *)
ChangesTracked ==
    \A j \in Fields : at[j] = "changed" =>
        j \in tracker[ContextOf(j)] \cup saved \/ Disturbed(j[1])

(* ... and saved when the event is about to be sent.                       *)
SavedIsCommitted ==
    \A j \in Fields : at[j] = "saved" => j \in saved \/ Disturbed(j[1])

(* Whoever is at work has the lease of its context, or has been robbed...  *)
OwnContext ==
    \A r \in Requests :
        stage[r] = "open" => r \in robbed \/ lessee[ctx[r]] = r

(* ... of a context that somebody has disposed for the second time.        *)
Late(c) ==
    \E s \in Requests : ctx[s] = c /\ stage[s] \in {"closed", "collected"}

RobbedLate == \A r \in robbed : Late(ctx[r])

(* A robbed request has a context.                                         *)
RobbedStarted == \A r \in robbed : stage[r] # "new"

LeaseInv == /\ TypeOK /\ HasContext /\ RobbedStarted /\ AtWork
            /\ OwnContext /\ RobbedLate /\ NoLeak

(* Events are those of requests that have begun.                           *)
EventsStarted == \A j \in events : stage[j[1]] # "new"

EventInv == EventsStarted /\ ChangesTracked /\ SavedIsCommitted /\ EventsCommitted

-----------------------------------------------------------------------------
(* The leases.                                                             *)

LEMMA InitLeases == Init => LeaseInv
BY PoolAssumption
   DEF Init, LeaseInv, TypeOK, HasContext, RobbedStarted, AtWork, OwnContext,
       RobbedLate, NoLeak, Leased, Fields

(* The step of a field leaves scopes and leases alone.                     *)
LEMMA StepLeases ==
  ASSUME LeaseInv, NEW r \in Requests, NEW n \in 1 .. MaxFields, Step(r, n)
  PROVE  LeaseInv'
<1>1. <<r, n>> \in Fields
  BY DEF Fields
<1>2. UNCHANGED <<scope, leases>>
  BY DEF Step, Read, ReadReturns, Complete, Publish, Fail
<1>3. at' \in [Fields -> {"todo", "reading", "changed", "saved", "done", "failed"}]
  BY <1>1 DEF Step, Read, ReadReturns, Complete, Publish, Fail, Set, LeaseInv, TypeOK
<1>4. tracker' \in [Contexts -> SUBSET Fields]
  BY <1>1 DEF Step, Read, ReadReturns, Complete, Publish, Fail, LeaseInv, TypeOK
<1>5. saved' \subseteq Fields /\ events' \subseteq Fields
  <2>1. CASE Read(r, n) \/ ReadReturns(r, n)
    BY <2>1 DEF Read, ReadReturns, Fail, LeaseInv, TypeOK
  <2>2. CASE Publish(r, n)
    BY <1>1, <2>2 DEF Publish, Fail, LeaseInv, TypeOK
  <2>3. CASE Complete(r, n)
    <3>1. ctx[r] \in Contexts
      BY <2>3 DEF Complete, LeaseInv, AtWork, HasContext
    <3>2. saved' \subseteq saved \cup tracker[ctx[r]] /\ events' = events
      BY <2>3 DEF Complete, Fail
    <3> QED
      BY <3>1, <3>2 DEF LeaseInv, TypeOK
  <2> QED
    BY <2>1, <2>2, <2>3 DEF Step
<1>6. AtWork'
  BY <1>1, <1>2
     DEF Step, Read, ReadReturns, Complete, Publish, MayStart, Fail, Set, scope,
         LeaseInv, AtWork, TypeOK, Fields
<1> QED
  BY <1>2, <1>3, <1>4, <1>5, <1>6
     DEF scope, leases, LeaseInv, TypeOK, HasContext, RobbedStarted, OwnContext,
         RobbedLate, Late, NoLeak, Leased

(* Nobody has a lease on a context that is handed out.                     *)
LEMMA OpenLeases ==
  ASSUME LeaseInv, NEW r \in Requests, NEW n \in 1 .. MaxFields, Open(r, n)
  PROVE  LeaseInv'
<1>1. PICK c \in Offered :
         /\ ctx' = [ctx EXCEPT ![r] = c]
         /\ lessee' = [lessee EXCEPT ![c] = r]
         /\ pool' = pool \ {c}
  BY DEF Open
<1>2. c \in Contexts /\ ~Leased(c)
  BY DEF LeaseInv, TypeOK, NoLeak, Leased, Offered, Unmade
<1>3. TypeOK'
  BY <1>1, <1>2, PoolAssumption DEF Open, LeaseInv, TypeOK
<1>4. HasContext' /\ RobbedStarted'
  BY <1>1, <1>2 DEF Open, LeaseInv, TypeOK, HasContext, RobbedStarted
<1>5. OwnContext'
  BY <1>1, <1>2, PoolAssumption DEF Open, LeaseInv, TypeOK, HasContext, OwnContext, Leased
<1>6. NoLeak'
  BY <1>1, <1>2, PoolAssumption DEF Open, LeaseInv, TypeOK, NoLeak, Leased
<1>7. AtWork'
  BY DEF Open, LeaseInv, AtWork, TypeOK
<1>8. RobbedLate'
  <2> SUFFICES ASSUME NEW q \in robbed PROVE Late(ctx[q])'
    BY DEF Open, RobbedLate
  <2>1. q \in Requests /\ stage[q] # "new"
    BY DEF LeaseInv, TypeOK, RobbedStarted
  <2>2. PICK s \in Requests : ctx[s] = ctx[q] /\ stage[s] \in {"closed", "collected"}
    BY DEF LeaseInv, RobbedLate, Late
  <2>3. q # r /\ s # r
    BY <2>1, <2>2 DEF Open
  <2> QED
    BY <1>1, <2>1, <2>2, <2>3 DEF Open, Late, LeaseInv, TypeOK
<1> QED
  BY <1>3, <1>4, <1>5, <1>6, <1>7, <1>8 DEF LeaseInv

(* Whoever else has the lease that a disposal ends is robbed of it.        *)
LEMMA DisposalLeases ==
  ASSUME LeaseInv, NEW r \in Requests, NEW from, NEW to,
         to \in {"disposing", "closed", "collected"},
         from \in {"open", "disposing", "closed"}, from = "open" => Answered(r),
         from # "open" => to \in {"closed", "collected"},
         DisposalOf(r, from, to)
  PROVE  LeaseInv'
<1>1. ctx[r] \in Contexts
  BY DEF DisposalOf, LeaseInv, HasContext
<1>2. TypeOK'
  BY <1>1 DEF DisposalOf, Dispose, Leased, leases, LeaseInv, TypeOK
<1>3. HasContext'
  BY DEF DisposalOf, LeaseInv, TypeOK, HasContext
<1>4. RobbedStarted'
  BY <1>1 DEF DisposalOf, Dispose, Leased, leases, LeaseInv, TypeOK, NoLeak, RobbedStarted
<1>5. OwnContext'
  <2> SUFFICES ASSUME NEW q \in Requests, stage'[q] = "open"
               PROVE  q \in robbed' \/ lessee'[ctx'[q]] = q
    BY DEF OwnContext
  <2>1. /\ q # r /\ stage[q] = "open" /\ ctx' = ctx
        /\ ctx[q] \in Contexts
    BY DEF DisposalOf, LeaseInv, TypeOK, HasContext
  <2>2. q \in robbed \/ lessee[ctx[q]] = q
    BY <2>1 DEF LeaseInv, OwnContext
  <2>3. CASE Leased(ctx[r])
    <3>1. /\ robbed' = robbed \cup ({lessee[ctx[r]]} \ {r})
          /\ lessee' = [lessee EXCEPT ![ctx[r]] = NoRequest]
      BY <2>3 DEF DisposalOf, Dispose
    <3> QED
      BY <1>1, <2>1, <2>2, <3>1 DEF LeaseInv, TypeOK
  <2>4. CASE ~Leased(ctx[r])
    BY <2>1, <2>2, <2>4 DEF DisposalOf, Dispose, leases
  <2> QED
    BY <2>3, <2>4
<1>6. NoLeak'
  BY <1>1 DEF DisposalOf, Dispose, Leased, leases, LeaseInv, TypeOK, NoLeak
<1>7. AtWork'
  BY DEF DisposalOf, Answered, LeaseInv, AtWork, TypeOK
<1>8. RobbedLate'
  <2>1. \A c \in Contexts : Late(c) => Late(c)'
    BY DEF DisposalOf, Late, LeaseInv, TypeOK
  <2>2. \A q \in robbed : Late(ctx[q])' /\ ctx' = ctx
    BY <2>1 DEF DisposalOf, LeaseInv, TypeOK, HasContext, RobbedStarted, RobbedLate
  <2>3. ASSUME NEW q \in robbed', q \notin robbed
        PROVE  Late(ctx[q])'
    <3>1. q = lessee[ctx[r]] /\ q # r /\ Leased(ctx[r])
      BY <2>3 DEF DisposalOf, Dispose, leases
    <3>2. ctx[q] = ctx[r]
      BY <1>1, <3>1 DEF LeaseInv, NoLeak
    <3>3. CASE from = "open"
      <4>1. r \in robbed
        BY <3>1, <3>3 DEF DisposalOf, LeaseInv, OwnContext
      <4> QED
        BY <2>2, <3>2, <4>1
    <3>4. CASE from # "open"
      <4>1. stage'[r] \in {"closed", "collected"} /\ ctx'[r] = ctx[r] /\ ctx' = ctx
        BY <3>4 DEF DisposalOf, LeaseInv, TypeOK
      <4> QED
        BY <3>2, <4>1 DEF Late
    <3> QED
      BY <3>3, <3>4
  <2> QED
    BY <2>2, <2>3 DEF DisposalOf, RobbedLate
<1> QED
  BY <1>2, <1>3, <1>4, <1>5, <1>6, <1>7, <1>8 DEF LeaseInv

LEMMA NextLeases == LeaseInv /\ [Next]_vars => LeaseInv'
<1> SUFFICES ASSUME LeaseInv, [Next]_vars PROVE LeaseInv'
  OBVIOUS
<1>1. ASSUME NEW r \in Requests, End(r) \/ Finalize(r) PROVE LeaseInv'
  <2>1. CASE DisposeUnitOfWork(r)
    BY <2>1, DisposalLeases DEF DisposeUnitOfWork
  <2>2. CASE DisposeContext(r)
    BY <2>2, DisposalLeases DEF DisposeContext
  <2>3. CASE Finalize(r)
    BY <2>3, DisposalLeases DEF Finalize
  <2> QED
    BY <1>1, <2>1, <2>2, <2>3 DEF End
<1>2. CASE UNCHANGED vars
  BY <1>2 DEF vars, LeaseInv, TypeOK, HasContext, RobbedStarted, AtWork,
              OwnContext, RobbedLate, Late, NoLeak, Leased
<1> QED
  BY <1>1, <1>2, OpenLeases, StepLeases DEF Next

THEOREM PoolTypes == Spec => []TypeOK
<1>1. LeaseInv => TypeOK
  BY DEF LeaseInv
<1> QED
  BY <1>1, InitLeases, NextLeases, PTL DEF Spec

(* A request at work has its context to itself until some request that     *)
(* rented it before disposes it for the second time, or its finalizer does *)
(* for the third: the chain of robberies always begins with one of those.  *)
THEOREM ContextKept == Spec => []LostToLateDisposal
<1>1. LeaseInv => LostToLateDisposal
  BY DEF LeaseInv, OwnContext, RobbedLate, Late, LostToLateDisposal
<1> QED
  BY <1>1, InitLeases, NextLeases, PTL DEF Spec

(* Three disposals of one context never leave it leased, nor lease it      *)
(* while it waits in the pool.                                             *)
THEOREM NoLeaseForgotten == Spec => []NoLeak
<1>1. LeaseInv => NoLeak
  BY DEF LeaseInv
<1> QED
  BY <1>1, InitLeases, NextLeases, PTL DEF Spec

-----------------------------------------------------------------------------
(* The events.                                                             *)

LEMMA InitEvents == Init => EventInv
BY DEF Init, EventInv, EventsStarted, ChangesTracked, SavedIsCommitted,
       EventsCommitted, Fields

LEMMA StepEvents ==
  ASSUME LeaseInv, EventInv, NEW r \in Requests, NEW n \in 1 .. MaxFields, Step(r, n)
  PROVE  EventInv'
<1> DEFINE j == <<r, n>>
<1>1. j \in Fields
  BY DEF Fields
<1>2. UNCHANGED <<scope, leases>>
  BY DEF Step, Read, ReadReturns, Complete, Publish, Fail
<1>3. \A s \in Requests : Disturbed(s)' = Disturbed(s)
  BY <1>2 DEF scope, leases, Disturbed
<1>4. stage[r] = "open"
  BY DEF Step, Read, ReadReturns, Complete, Publish, MayStart, LeaseInv, AtWork
<1>5. EventsStarted'
  BY <1>2, <1>4
     DEF Step, Read, ReadReturns, Complete, Publish, Fail, scope, EventInv,
         EventsStarted
<1>6. CASE Read(r, n) \/ ReadReturns(r, n)
  <2>2. ASSUME NEW i \in Fields, at'[i] = "changed"
        PROVE  i \in tracker'[ContextOf(i)'] \cup saved' \/ Disturbed(i[1])'
    <3>1. i[1] \in Requests
      BY DEF Fields
    <3>2. CASE i = j
      <4>1. at[j] = "changed" \/ (at[j] = "reading" /\ tracker' = [tracker EXCEPT ![ctx[r]] = @ \cup {j}])
        BY <1>1, <1>6, <2>2, <3>2 DEF Read, ReadReturns, Fail, Set, LeaseInv, TypeOK
      <4>2. ctx[r] \in Contexts
        BY <4>1 DEF LeaseInv, AtWork, HasContext
      <4>3. CASE at[j] = "changed"
        BY <1>1, <1>6, <2>2, <3>2, <4>3 DEF Read, ReadReturns, MayStart, Fail, Set, LeaseInv, TypeOK
      <4> QED
        BY <1>2, <3>2, <4>1, <4>2, <4>3 DEF scope, ContextOf, LeaseInv, TypeOK
    <3>3. CASE i # j
      <4>1. at[i] = "changed"
        BY <1>1, <1>6, <2>2, <3>3 DEF Read, ReadReturns, Fail, Set, LeaseInv, TypeOK
      <4>2. \A c \in Contexts : tracker[c] \subseteq tracker'[c]
        BY <1>6 DEF Read, ReadReturns, Fail, LeaseInv, TypeOK
      <4>3. ContextOf(i)' = ContextOf(i) /\ ContextOf(i) \in Contexts
        <5>1. stage[i[1]] = "open"
          BY <4>1, <3>1 DEF LeaseInv, AtWork, Fields
        <5> QED
          BY <1>2, <3>1, <5>1 DEF scope, ContextOf, LeaseInv, HasContext
      <4> QED
        BY <1>3, <1>6, <3>1, <4>1, <4>2, <4>3
           DEF Read, ReadReturns, Fail, EventInv, ChangesTracked
    <3> QED
      BY <3>2, <3>3
  <2>3. SavedIsCommitted'
    BY <1>1, <1>3, <1>6
       DEF Read, ReadReturns, Fail, Set, EventInv, SavedIsCommitted, LeaseInv, TypeOK, Fields
  <2>4. EventsCommitted'
    BY <1>3, <1>6
       DEF Read, ReadReturns, Fail, EventInv, EventsCommitted, LeaseInv, TypeOK, Fields
  <2> QED
    BY <1>5, <2>2, <2>3, <2>4 DEF EventInv, ChangesTracked
<1>7. CASE Complete(r, n)
  <2>1. at[j] = "changed" /\ stage[r] = "open" /\ ctx[r] \in Contexts
    BY <1>7 DEF Complete, LeaseInv, AtWork, HasContext
  <2>3. saved \subseteq saved' /\ events' = events
    BY <1>7 DEF Complete, Fail
  <2>4. EventsCommitted'
    BY <1>3, <2>3 DEF EventInv, EventsCommitted, LeaseInv, TypeOK, Fields
  <2>5. CASE Fail(j)
    BY <1>1, <1>2, <1>3, <1>5, <2>4, <2>5
       DEF Fail, Set, scope, ContextOf, EventInv, ChangesTracked, SavedIsCommitted,
           LeaseInv, TypeOK, Fields
  <2>6. CASE /\ saved' = saved \cup tracker[ctx[r]]
             /\ tracker' = [tracker EXCEPT ![ctx[r]] = {}]
             /\ Set(j, "saved")
             /\ ~Throws(j)
    <3>1. SavedIsCommitted'
      BY <1>1, <1>3, <2>1, <2>6
         DEF Set, ContextOf, EventInv, ChangesTracked, SavedIsCommitted, LeaseInv,
             TypeOK, Fields
    <3>2. ASSUME NEW i \in Fields, at'[i] = "changed"
          PROVE  i \in tracker'[ContextOf(i)'] \cup saved' \/ Disturbed(i[1])'
      <4>1. i # j /\ at[i] = "changed" /\ i[1] \in Requests
        BY <1>1, <2>6, <3>2 DEF Set, LeaseInv, TypeOK, Fields
      <4>2. i \in tracker[ContextOf(i)] \cup saved \/ Disturbed(i[1])
        BY <4>1 DEF EventInv, ChangesTracked
      <4>3. tracker[ContextOf(i)] \subseteq tracker'[ContextOf(i)] \cup saved'
        <5>1. ContextOf(i) \in Contexts
          BY <4>1 DEF AtWork, ContextOf, LeaseInv, HasContext, Fields
        <5> QED
          BY <2>1, <2>6, <5>1 DEF LeaseInv, TypeOK
      <4> QED
        BY <1>2, <1>3, <2>3, <4>1, <4>2, <4>3 DEF scope, ContextOf
    <3> QED
      BY <1>5, <2>4, <3>1, <3>2 DEF EventInv, ChangesTracked
  <2>7. CASE /\ saved' \in {saved, saved \cup tracker[ctx[r]]}
             /\ Set(j, "failed")
             /\ UNCHANGED tracker
    BY <1>1, <1>2, <1>3, <1>5, <2>3, <2>4, <2>7
       DEF Set, scope, ContextOf, EventInv, ChangesTracked, SavedIsCommitted,
           LeaseInv, TypeOK, Fields
  <2> QED
    BY <1>7, <2>5, <2>6, <2>7 DEF Complete
<1>8. CASE Publish(r, n)
  BY <1>1, <1>2, <1>3, <1>5, <1>8
     DEF Publish, Fail, Set, scope, ContextOf, EventInv, ChangesTracked,
         SavedIsCommitted, EventsCommitted, LeaseInv, TypeOK, Fields
<1> QED
  BY <1>6, <1>7, <1>8 DEF Step

LEMMA OpenEvents ==
  ASSUME LeaseInv, EventInv, NEW r \in Requests, NEW n \in 1 .. MaxFields, Open(r, n)
  PROVE  EventInv'
<1>1. \A s \in Requests, k \in 1 .. MaxFields : at[<<s, k>>] \in {"reading", "changed", "saved"}
         => s # r /\ stage[s] = "open" /\ k <= fields[s]
  BY DEF Open, LeaseInv, AtWork
<1>2. EventsStarted'
  BY DEF Open, EventInv, EventsStarted, LeaseInv, TypeOK
<1>3. \A s \in Requests : s # r => ctx'[s] = ctx[s]
  BY DEF Open, LeaseInv, TypeOK
<1>4. \A s \in Requests : Disturbed(s) /\ stage[s] # "new" => Disturbed(s)'
  <2>1. r \notin robbed
    BY DEF Open, LeaseInv, RobbedStarted
  <2> QED
    BY <1>3, <2>1 DEF Open, Disturbed, LeaseInv, TypeOK
<1>5. ChangesTracked' /\ SavedIsCommitted'
  BY <1>1, <1>3, <1>4
     DEF Open, EventInv, ChangesTracked, SavedIsCommitted, ContextOf, Fields
<1>6. EventsCommitted'
  <2>1. \A j \in events : stage[j[1]] # "new"
    BY DEF EventInv, EventsStarted
  <2> QED
    BY <1>4, <2>1 DEF Open, EventInv, EventsCommitted, LeaseInv, TypeOK, Fields
<1> QED
  BY <1>2, <1>5, <1>6 DEF EventInv

(* A context that is reset under a change is not that request's own.       *)
LEMMA DisposalEvents ==
  ASSUME LeaseInv, EventInv, NEW r \in Requests, NEW from, NEW to,
         to \in {"disposing", "closed", "collected"},
         from \in {"open", "disposing", "closed"}, from = "open" => Answered(r),
         DisposalOf(r, from, to)
  PROVE  EventInv'
<1>1. ctx[r] \in Contexts /\ stage[r] = from
  BY DEF DisposalOf, LeaseInv, HasContext
<1>2. \A s \in Requests : Disturbed(s) => Disturbed(s)'
  BY DEF DisposalOf, Dispose, leases, Disturbed
<1>3. \A k \in 1 .. MaxFields : at[<<r, k>>] \notin {"reading", "changed", "saved"}
  BY <1>1 DEF Answered, LeaseInv, AtWork, TypeOK
<1>4. EventsStarted'
  BY DEF DisposalOf, EventInv, EventsStarted, LeaseInv, TypeOK, Fields
<1>5. ASSUME NEW i \in Fields, at[i] = "changed"
      PROVE  i \in tracker'[ContextOf(i)] \cup saved \/ Disturbed(i[1])'
  <2>1. i[1] \in Requests /\ i[1] # r /\ stage[i[1]] = "open" /\ ContextOf(i) \in Contexts
    BY <1>3, <1>5 DEF AtWork, ContextOf, LeaseInv, HasContext, Fields
  <2>2. i \in tracker[ContextOf(i)] \cup saved \/ Disturbed(i[1])
    BY <1>5 DEF EventInv, ChangesTracked
  <2>3. CASE tracker'[ContextOf(i)] = tracker[ContextOf(i)]
    BY <1>2, <2>1, <2>2, <2>3
  <2>4. CASE ContextOf(i) = ctx[r] /\ Leased(ctx[r])
    <3>1. i[1] \in robbed \/ lessee[ctx[r]] = i[1]
      BY <2>1, <2>4 DEF ContextOf, LeaseInv, OwnContext
    <3>2. i[1] \in robbed'
      BY <2>1, <2>4, <3>1 DEF DisposalOf, Dispose
    <3> QED
      BY <3>2 DEF Disturbed
  <2> QED
    BY <1>1, <2>1, <2>3, <2>4 DEF DisposalOf, Dispose, LeaseInv, TypeOK
<1>6. ChangesTracked'
  BY <1>5 DEF DisposalOf, ChangesTracked, ContextOf
<1>7. SavedIsCommitted' /\ EventsCommitted'
  BY <1>2 DEF DisposalOf, EventInv, SavedIsCommitted, EventsCommitted, LeaseInv,
              TypeOK, Fields
<1> QED
  BY <1>4, <1>6, <1>7 DEF EventInv

LEMMA NextEvents == LeaseInv /\ EventInv /\ [Next]_vars => EventInv'
<1> SUFFICES ASSUME LeaseInv, EventInv, [Next]_vars PROVE EventInv'
  OBVIOUS
<1>1. ASSUME NEW r \in Requests, End(r) \/ Finalize(r) PROVE EventInv'
  BY <1>1, DisposalEvents DEF End, DisposeUnitOfWork, DisposeContext, Finalize
<1>2. CASE UNCHANGED vars
  BY <1>2 DEF vars, EventInv, EventsStarted, ChangesTracked,
              SavedIsCommitted, EventsCommitted, ContextOf, Disturbed
<1> QED
  BY <1>1, <1>2, OpenEvents, StepEvents DEF Next

(* The subscribers are told of committed changes only, unless the context  *)
(* of the change was given back under it.                                  *)
THEOREM EventsTrue == Spec => []EventsCommitted
<1>1. EventInv => EventsCommitted
  BY DEF EventInv
<1> QED
  BY <1>1, InitLeases, NextLeases, InitEvents, NextEvents, PTL DEF Spec

-----------------------------------------------------------------------------
(* The fields.                                                             *)

(* A context that some request has lost.                                   *)
Lost(c) == \E s \in robbed : ctx[s] = c

(* Only fields that were selected have begun.                              *)
Begun ==
    \A j \in Fields : at[j] # "todo" => stage[j[1]] # "new" /\ j[2] <= fields[j[1]]

(* The fields of a mutation take turns.                                    *)
InTurn ==
    \A r \in Requests : \A n \in 1 .. MaxFields :
        kind[r] = "mutation" /\ at[<<r, n>>] # "todo" =>
            \A k \in 1 .. n - 1 : at[<<r, k>>] \in {"done", "failed"}

OnlyMutations ==
    \A j \in Fields : at[j] \in {"changed", "saved"} => kind[j[1]] = "mutation"

(* A context tracks changes made with it; and while no request has lost    *)
(* it, those of the request that has the lease.                            *)
TrackedOwn ==
    \A c \in Contexts : \A j \in tracker[c] :
        /\ ctx[j[1]] = c
        /\ at[j] # "todo"
        /\ Lost(c) \/ lessee[c] = j[1]

FieldInv == Begun /\ InTurn /\ OnlyMutations /\ TrackedOwn

LEMMA InitFields == Init => FieldInv
<1> SUFFICES ASSUME Init PROVE FieldInv
  OBVIOUS
<1>1. \A r \in Requests : \A n \in 1 .. MaxFields : at[<<r, n>>] = "todo"
  BY DEF Init, Fields
<1>2. Begun /\ InTurn /\ OnlyMutations
  BY <1>1 DEF Init, Begun, InTurn, OnlyMutations, Fields
<1>3. TrackedOwn
  BY DEF Init, TrackedOwn
<1> QED
  BY <1>2, <1>3 DEF FieldInv

(* A request at work that nobody disturbs has the lease of its context.    *)
LEMMA Undisturbed ==
  ASSUME LeaseInv, NEW r \in Requests, stage[r] = "open", ~ Disturbed(r)
  PROVE  lessee[ctx[r]] = r /\ ctx[r] \in Contexts /\ ~ Lost(ctx[r])
BY DEF LeaseInv, OwnContext, HasContext, Disturbed, Lost

(* What is lost stays so, and a request that has begun keeps its context.  *)
Settled(r) == /\ ctx'[r] = ctx[r] /\ stage'[r] # "new" /\ fields'[r] = fields[r]
              /\ Disturbed(r) => Disturbed(r)'

LEMMA LostForGood ==
  ASSUME LeaseInv, [Next]_vars
  PROVE  /\ \A c \in Contexts : Lost(c) => Lost(c)'
         /\ \A r \in Requests : stage[r] # "new" => Settled(r)
<1>1. robbed \subseteq robbed'
  <2>1. ASSUME NEW r \in Requests, NEW n \in 1 .. MaxFields, Open(r, n) \/ Step(r, n)
        PROVE  robbed' = robbed
    BY <2>1 DEF Open, Step, Read, ReadReturns, Complete, Publish, Fail, leases
  <2>2. ASSUME NEW r \in Requests, End(r) \/ Finalize(r)
        PROVE  robbed \subseteq robbed'
    BY <2>2 DEF End, DisposeUnitOfWork, DisposeContext, Finalize, DisposalOf, Dispose, leases
  <2>3. CASE UNCHANGED vars
    BY <2>3 DEF vars
  <2> QED
    BY <2>1, <2>2, <2>3 DEF Next
<1>2. ASSUME NEW r \in Requests, stage[r] # "new"
      PROVE  ctx'[r] = ctx[r] /\ stage'[r] # "new" /\ fields'[r] = fields[r]
  <2>1. ASSUME NEW q \in Requests, NEW n \in 1 .. MaxFields, Open(q, n)
        PROVE  ctx'[r] = ctx[r] /\ stage'[r] # "new" /\ fields'[r] = fields[r]
    BY <1>2, <2>1 DEF Open, LeaseInv, TypeOK
  <2>2. ASSUME NEW q \in Requests, NEW n \in 1 .. MaxFields, Step(q, n)
        PROVE  ctx' = ctx /\ stage' = stage /\ fields' = fields
    BY <2>2 DEF Step, Read, ReadReturns, Complete, Publish, Fail, scope
  <2>3. ASSUME NEW q \in Requests, End(q) \/ Finalize(q)
        PROVE  ctx' = ctx /\ stage'[r] # "new" /\ fields' = fields
    BY <1>2, <2>3 DEF End, DisposeUnitOfWork, DisposeContext, Finalize, DisposalOf,
                      LeaseInv, TypeOK
  <2>4. CASE UNCHANGED vars
    BY <1>2, <2>4 DEF vars
  <2> QED
    BY <1>2, <2>1, <2>2, <2>3, <2>4 DEF Next
<1>3. \A s \in robbed : s \in Requests /\ ctx'[s] = ctx[s]
  BY <1>2 DEF LeaseInv, TypeOK, RobbedStarted
<1> QED
  BY <1>1, <1>2, <1>3 DEF Lost, Disturbed, Settled

(* The step of a field changes the field itself, which moves on.           *)
LEMMA StepMoves ==
  ASSUME LeaseInv, FieldInv, NEW r \in Requests, NEW n \in 1 .. MaxFields, Step(r, n)
  PROVE  /\ <<r, n>> \in Fields
         /\ stage[r] = "open" /\ n \in 1 .. fields[r] /\ ctx[r] \in Contexts
         /\ UNCHANGED <<scope, leases>>
         /\ \E s \in {"reading", "changed", "saved", "done", "failed"} :
              at' = [at EXCEPT ![<<r, n>>] = s]
         /\ at[<<r, n>>] \in {"todo", "reading", "changed", "saved"}
         /\ kind[r] = "mutation" =>
              \A k \in 1 .. n - 1 : at[<<r, k>>] \in {"done", "failed"}
<1>1. <<r, n>> \in Fields
  BY DEF Fields
<1>2. UNCHANGED <<scope, leases>>
  BY DEF Step, Read, ReadReturns, Complete, Publish, Fail
<1>3. \E s \in {"reading", "changed", "saved", "done", "failed"} :
         at' = [at EXCEPT ![<<r, n>>] = s]
  BY DEF Step, Read, ReadReturns, Complete, Publish, Fail, Set
<1>4. CASE Read(r, n)
  BY <1>1, <1>2, <1>3, <1>4 DEF Read, MayStart, LeaseInv, HasContext
<1>5. CASE at[<<r, n>>] \in {"reading", "changed", "saved"}
  <2>1. stage[r] = "open" /\ n <= fields[r]
    BY <1>5 DEF LeaseInv, AtWork
  <2>2. n \in 1 .. fields[r]
    BY <2>1, PoolAssumption DEF LeaseInv, TypeOK
  <2>3. kind[r] = "mutation" =>
          \A k \in 1 .. n - 1 : at[<<r, k>>] \in {"done", "failed"}
    BY <1>5 DEF FieldInv, InTurn
  <2> QED
    BY <1>1, <1>2, <1>3, <1>5, <2>1, <2>2, <2>3 DEF LeaseInv, HasContext
<1> QED
  BY <1>4, <1>5 DEF Step, ReadReturns, Complete, Publish

LEMMA StepOrder ==
  ASSUME LeaseInv, FieldInv, NEW r \in Requests, NEW n \in 1 .. MaxFields, Step(r, n)
  PROVE  Begun' /\ InTurn' /\ OnlyMutations'
<1>1. PICK s \in {"reading", "changed", "saved", "done", "failed"} :
         at' = [at EXCEPT ![<<r, n>>] = s]
  BY StepMoves
<1>2. /\ <<r, n>> \in Fields
      /\ stage[r] = "open" /\ n \in 1 .. fields[r]
      /\ UNCHANGED <<stage, kind, fields>>
      /\ at[<<r, n>>] \in {"todo", "reading", "changed", "saved"}
      /\ kind[r] = "mutation" =>
           \A k \in 1 .. n - 1 : at[<<r, k>>] \in {"done", "failed"}
  BY StepMoves DEF scope
<1>3. Begun'
  BY <1>1, <1>2 DEF FieldInv, Begun, LeaseInv, TypeOK
<1>4. InTurn'
  <2> SUFFICES ASSUME NEW q \in Requests, NEW i \in 1 .. MaxFields,
                      kind[q] = "mutation", at'[<<q, i>>] # "todo",
                      NEW k \in 1 .. i - 1
               PROVE  at'[<<q, k>>] \in {"done", "failed"}
    BY <1>2 DEF InTurn
  <2>1. k \in 1 .. MaxFields
    BY PoolAssumption
  <2>2. <<q, k>> \in Fields /\ <<q, i>> \in Fields
    BY <2>1 DEF Fields
  <2>3. at[<<q, k>>] \in {"done", "failed"}
    BY <1>1, <1>2, <2>2 DEF FieldInv, InTurn, LeaseInv, TypeOK
  <2> QED
    BY <1>1, <1>2, <2>2, <2>3 DEF LeaseInv, TypeOK
<1>5. OnlyMutations'
  <2> SUFFICES ASSUME NEW j \in Fields, at'[j] \in {"changed", "saved"}
               PROVE  kind[j[1]] = "mutation"
    BY <1>2 DEF OnlyMutations
  <2>1. CASE j # <<r, n>>
    BY <1>1, <1>2, <2>1 DEF FieldInv, OnlyMutations, LeaseInv, TypeOK
  <2>2. CASE j = <<r, n>>
    <3>1. kind[r] = "mutation" \/ at[<<r, n>>] \in {"changed", "saved"}
      BY <1>2, <2>2 DEF Step, Read, ReadReturns, Complete, Publish, Fail, Set, LeaseInv, TypeOK
    <3> QED
      BY <1>2, <2>2, <3>1 DEF FieldInv, OnlyMutations
  <2> QED
    BY <2>1, <2>2
<1> QED
  BY <1>3, <1>4, <1>5

(* What a commit writes: this field's change, and those of earlier fields  *)
(* of the same request.                                                    *)
LEMMA CommitIsOwn ==
  ASSUME LeaseInv, FieldInv, NEW r \in Requests, NEW n \in 1 .. MaxFields,
         at[<<r, n>>] = "changed", ~ Disturbed(r)
  PROVE  tracker[ctx[r]] \subseteq {r} \X (1 .. n)
<1>1. stage[r] = "open"
  BY DEF LeaseInv, AtWork
<1>2. lessee[ctx[r]] = r /\ ctx[r] \in Contexts /\ ~ Lost(ctx[r])
  BY <1>1, Undisturbed
<1>3. kind[r] = "mutation"
  BY DEF FieldInv, OnlyMutations, Fields
<1> SUFFICES ASSUME NEW j \in tracker[ctx[r]] PROVE j \in {r} \X (1 .. n)
  OBVIOUS
<1>4. j \in Fields /\ j[1] = r /\ at[j] # "todo"
  BY <1>2 DEF FieldInv, TrackedOwn, LeaseInv, TypeOK
<1>5. PICK k \in 1 .. MaxFields : j = <<r, k>>
  BY <1>4 DEF Fields
<1>6. k <= n
  <2> SUFFICES ASSUME n < k PROVE FALSE
    OBVIOUS
  <2>1. n \in 1 .. k - 1
    OBVIOUS
  <2> QED
    BY <1>3, <1>4, <1>5, <2>1 DEF FieldInv, InTurn
<1> QED
  BY <1>5, <1>6

(* What contexts track after a step, and what is saved.                    *)
LEMMA StepTracked ==
  ASSUME LeaseInv, FieldInv, NEW r \in Requests, NEW n \in 1 .. MaxFields, Step(r, n)
  PROVE  TrackedOwn'
<1>1. PICK s \in {"reading", "changed", "saved", "done", "failed"} :
         at' = [at EXCEPT ![<<r, n>>] = s]
  BY StepMoves
<1>2. /\ <<r, n>> \in Fields /\ stage[r] = "open" /\ ctx[r] \in Contexts
      /\ UNCHANGED <<ctx, lessee, robbed>>
      /\ at[<<r, n>>] \in {"todo", "reading", "changed", "saved"}
  BY StepMoves DEF scope, leases
<1> SUFFICES ASSUME NEW c \in Contexts, NEW j \in tracker'[c]
             PROVE  /\ ctx[j[1]] = c
                    /\ at'[j] # "todo"
                    /\ Lost(c) \/ lessee[c] = j[1]
  BY <1>2 DEF TrackedOwn, Lost
<1>3. CASE j \in tracker[c]
  <2>1. /\ ctx[j[1]] = c /\ at[j] # "todo" /\ j \in Fields
        /\ Lost(c) \/ lessee[c] = j[1]
    BY <1>3 DEF FieldInv, TrackedOwn, LeaseInv, TypeOK
  <2>2. at'[j] # "todo"
    BY <1>1, <1>2, <2>1 DEF LeaseInv, TypeOK
  <2> QED
    BY <2>1, <2>2
<1>4. CASE j \notin tracker[c]
  <2>1. /\ c = ctx[r] /\ j = <<r, n>> /\ at'[j] = "changed"
    <3>1. ReadReturns(r, n) /\ Set(<<r, n>>, "changed")
          /\ tracker' = [tracker EXCEPT ![ctx[r]] = @ \cup {<<r, n>>}]
      BY <1>2, <1>4 DEF Step, Read, ReadReturns, Complete, Publish, Fail, LeaseInv, TypeOK
    <3> QED
      BY <1>2, <1>4, <3>1 DEF Set, LeaseInv, TypeOK
  <2>2. Lost(c) \/ lessee[c] = r
    BY <1>2, <2>1, Undisturbed DEF Disturbed, Lost
  <2> QED
    BY <2>1, <2>2
<1> QED
  BY <1>3, <1>4

LEMMA StepFields ==
  ASSUME LeaseInv, FieldInv, NEW r \in Requests, NEW n \in 1 .. MaxFields, Step(r, n)
  PROVE  FieldInv'
BY StepOrder, StepTracked DEF FieldInv

(* A context that is handed out is nobody's, and tracks nothing unless it  *)
(* is lost.                                                                *)
LEMMA OpenFields ==
  ASSUME LeaseInv, FieldInv, NEW r \in Requests, NEW n \in 1 .. MaxFields, Open(r, n)
  PROVE  FieldInv'
<1>1. PICK c \in Offered :
         /\ ctx' = [ctx EXCEPT ![r] = c]
         /\ lessee' = [lessee EXCEPT ![c] = r]
  BY DEF Open
<1>2. c \in Contexts /\ ~ Leased(c)
  BY DEF LeaseInv, TypeOK, NoLeak, Leased, Offered, Unmade
<1>3. /\ stage[r] = "new" /\ stage' = [stage EXCEPT ![r] = "open"]
      /\ fields' = [fields EXCEPT ![r] = n]
      /\ UNCHANGED <<kind, at, tracker, saved, events, robbed>>
  BY DEF Open
<1>4. \A j \in Fields : at[j] # "todo" => j[1] \in Requests /\ j[1] # r /\ Settled(j[1])
  <2>1. [Next]_vars
    BY DEF Next
  <2> QED
    BY <1>3, <2>1, LostForGood DEF FieldInv, Begun, Fields
<1>5. Begun' /\ InTurn' /\ OnlyMutations'
  <2>1. Begun'
    BY <1>3, <1>4 DEF FieldInv, Begun, Settled
  <2> QED
    BY <1>3, <2>1 DEF FieldInv, InTurn, OnlyMutations
<1>6. TrackedOwn'
  <2> SUFFICES ASSUME NEW b \in Contexts, NEW j \in tracker[b]
               PROVE  /\ ctx'[j[1]] = b
                      /\ at[j] # "todo"
                      /\ Lost(b)' \/ lessee'[b] = j[1]
    BY <1>3 DEF TrackedOwn
  <2>1. /\ ctx[j[1]] = b /\ at[j] # "todo" /\ j \in Fields
        /\ Lost(b) \/ lessee[b] = j[1]
    BY DEF FieldInv, TrackedOwn, LeaseInv, TypeOK
  <2>2. ctx'[j[1]] = b /\ j[1] \in Requests
    BY <1>4, <2>1 DEF Settled
  <2>3. Lost(b) => Lost(b)'
    BY LostForGood DEF Next
  <2>4. lessee[b] = j[1] => lessee'[b] = j[1]
    BY <1>1, <1>2, <2>2, PoolAssumption DEF Leased, LeaseInv, TypeOK
  <2> QED
    BY <2>1, <2>2, <2>3, <2>4
<1> QED
  BY <1>5, <1>6 DEF FieldInv

(* A context that is given back tracks nothing.                            *)
LEMMA DisposalFields ==
  ASSUME LeaseInv, FieldInv, [Next]_vars, NEW r \in Requests, NEW from, NEW to,
         stage[r] # "new", to # "new", DisposalOf(r, from, to)
  PROVE  FieldInv'
<1>1. UNCHANGED <<kind, fields, ctx, at, saved, events>>
  BY DEF DisposalOf
<1>2. \A j \in Fields : at[j] # "todo" => Settled(j[1])
  BY LostForGood DEF FieldInv, Begun, Fields
<1>3. Begun' /\ InTurn' /\ OnlyMutations'
  BY <1>1, <1>2 DEF FieldInv, Begun, InTurn, OnlyMutations, Settled
<1>4. TrackedOwn'
  <2> SUFFICES ASSUME NEW b \in Contexts, NEW j \in tracker'[b]
               PROVE  /\ ctx[j[1]] = b
                      /\ at[j] # "todo"
                      /\ Lost(b)' \/ lessee'[b] = j[1]
    BY <1>1 DEF TrackedOwn
  <2>1. ctx[r] \in Contexts
    BY DEF LeaseInv, HasContext
  <2>2. j \in tracker[b] /\ lessee'[b] = lessee[b]
    BY <2>1 DEF DisposalOf, Dispose, leases, LeaseInv, TypeOK
  <2>3. Lost(b) => Lost(b)'
    BY LostForGood
  <2> QED
    BY <2>2, <2>3 DEF FieldInv, TrackedOwn
<1> QED
  BY <1>3, <1>4 DEF FieldInv

LEMMA NextFields == LeaseInv /\ FieldInv /\ [Next]_vars => FieldInv'
<1> SUFFICES ASSUME LeaseInv, FieldInv, [Next]_vars PROVE FieldInv'
  OBVIOUS
<1>1. ASSUME NEW r \in Requests, End(r) \/ Finalize(r) PROVE FieldInv'
  <2>1. PICK from \in {"open", "disposing", "closed"},
             to \in {"disposing", "closed", "collected"} : DisposalOf(r, from, to)
    BY <1>1 DEF End, DisposeUnitOfWork, DisposeContext, Finalize
  <2>2. stage[r] # "new" /\ to # "new"
    BY <2>1 DEF DisposalOf
  <2> QED
    BY <2>1, <2>2, DisposalFields
<1>2. CASE UNCHANGED vars
  BY <1>2 DEF vars, FieldInv, Begun, InTurn, OnlyMutations, TrackedOwn, Lost
<1> QED
  BY <1>1, <1>2, OpenFields, StepFields DEF Next

LEMMA FieldsHold == Spec => [](LeaseInv /\ FieldInv)
BY InitLeases, NextLeases, InitFields, NextFields, PTL DEF Spec

(* Only the step of a field changes how far the field is.                  *)
LEMMA WhoseStep ==
  ASSUME LeaseInv, FieldInv, [Next]_vars, NEW r \in Requests, NEW n \in 1 .. MaxFields,
         at'[<<r, n>>] # at[<<r, n>>]
  PROVE  Step(r, n)
<1>1. ~ UNCHANGED vars
  BY DEF vars
<1>2. ASSUME NEW q \in Requests, End(q) \/ Finalize(q) PROVE FALSE
  BY <1>2 DEF End, DisposeUnitOfWork, DisposeContext, Finalize, DisposalOf
<1>3. ASSUME NEW q \in Requests, NEW k \in 1 .. MaxFields, Open(q, k) PROVE FALSE
  BY <1>3 DEF Open
<1>4. PICK q \in Requests, k \in 1 .. MaxFields : Step(q, k)
  BY <1>1, <1>2, <1>3 DEF Next
<1>5. q = r /\ k = n
  <2>1. PICK s : at' = [at EXCEPT ![<<q, k>>] = s]
    BY <1>4, StepMoves
  <2>2. <<r, n>> \in Fields
    BY DEF Fields
  <2>3. <<q, k>> = <<r, n>>
    BY <2>1, <2>2 DEF LeaseInv, TypeOK
  <2> QED
    BY <2>3
<1> QED
  BY <1>4, <1>5

(* Complete writes the changes of its own request: of the field it is for  *)
(* and of those before it. What earlier tenants left in the context is     *)
(* gone, unless some request has lost the context.                         *)
THEOREM CommitsTheirOwn == Spec => CommitsOwn
<1> DEFINE Own == \A r \in Requests : \A n \in 1 .. fields[r] :
                    at[<<r, n>>] = "changed" /\ at'[<<r, n>>] # "changed" =>
                      Disturbed(r) \/ saved' \ saved \subseteq {r} \X (1 .. n)
<1>1. LeaseInv /\ FieldInv /\ [Next]_vars => Own
  <2> SUFFICES ASSUME LeaseInv, FieldInv, [Next]_vars,
                      NEW r \in Requests, NEW n \in 1 .. fields[r],
                      at[<<r, n>>] = "changed", at'[<<r, n>>] # "changed", ~ Disturbed(r)
               PROVE  saved' \ saved \subseteq {r} \X (1 .. n)
    OBVIOUS
  <2>1. n \in 1 .. MaxFields
    BY PoolAssumption DEF LeaseInv, TypeOK
  <2>2. Complete(r, n)
    BY <2>1, WhoseStep DEF Step, Read, MayStart, ReadReturns, Publish
  <2>3. saved' \ saved \subseteq tracker[ctx[r]]
    BY <2>2 DEF Complete, Fail
  <2> QED
    BY <2>1, <2>3, CommitIsOwn
<1>2. LeaseInv /\ FieldInv /\ [Next]_vars => [Own]_vars
  BY <1>1
<1> QED
  BY <1>2, FieldsHold, PTL DEF Spec, CommitsOwn
=============================================================================
