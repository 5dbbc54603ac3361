---------------------------- MODULE ContextPool ----------------------------
(***************************************************************************)
(* The pooled ApplicationContexts and the GraphQL requests that rent them. *)
(*                                                                         *)
(* A request is one service scope: its first resolver makes the scope's    *)
(* IEmployeeService, and with it a UnitOfWork and a context rented from    *)
(* the pool (AddPooledDbContextFactory, CreateDbContext). The end of the   *)
(* request disposes the UnitOfWork, which disposes the context, and then   *)
(* the context once more; the finalizer of EmployeeService disposes the    *)
(* UnitOfWork a third time, whenever the garbage collector gets to it. A   *)
(* context disposed while it is rented goes back to the pool, whoever      *)
(* rents it by then; one that is not rented throws when it is used.        *)
(*                                                                         *)
(* The fields of a query run concurrently on the scope's one context, the  *)
(* fields of a mutation one after another; each is a call of               *)
(* IEmployeeService, of which only the use of the context is modelled: one *)
(* read and, in a mutation, a tracked change and Complete. A REST action   *)
(* is a request of one field that publishes nothing. Any call of Redis, of *)
(* the database or of the topic may throw, as in EmployeeService. A        *)
(* request is assumed to be waited for until its fields are answered.      *)
(***************************************************************************)
EXTENDS Naturals, FiniteSets

CONSTANTS
    Requests,
    Contexts,    \* bound: contexts made; the pool itself makes one when empty
    MaxFields,   \* bound: fields selected by one request
    MaxSelected, \* bound: fields selected by all requests
    NoContext,
    NoRequest

ASSUME PoolAssumption == /\ MaxFields \in Nat
                         /\ MaxSelected \in Nat
                         /\ NoContext \notin Contexts
                         /\ NoRequest \notin Requests

VARIABLES
    stage,    \* how far the scope of each request is
    kind,     \* "query" or "mutation"
    fields,   \* how many fields it selects
    ctx,      \* the context its UnitOfWork was made with
    at,       \* how far each field is
    pool,     \* the contexts waiting in the pool
    lessee,   \* to whom each context is leased
    tracker,  \* the fields whose unsaved changes each context tracks
    saved,    \* the fields whose change has been committed
    events,   \* the fields whose event has been sent to the subscribers
    robbed    \* the requests whose context another request has given back

vars == <<stage, kind, fields, ctx, at, pool, lessee, tracker, saved, events,
          robbed>>

scope == <<stage, kind, fields, ctx>>
leases == <<pool, lessee, robbed>>

Fields == Requests \X (1 .. MaxFields)

TypeOK ==
    /\ stage \in [Requests -> {"new", "open", "disposing", "closed", "collected"}]
    /\ kind \in [Requests -> {"query", "mutation"}]
    /\ fields \in [Requests -> 0 .. MaxFields]
    /\ ctx \in [Requests -> Contexts \cup {NoContext}]
    /\ at \in [Fields -> {"todo", "reading", "changed", "saved", "done", "failed"}]
    /\ pool \subseteq Contexts
    /\ lessee \in [Contexts -> Requests \cup {NoRequest}]
    /\ tracker \in [Contexts -> SUBSET Fields]
    /\ saved \subseteq Fields
    /\ events \subseteq Fields
    /\ robbed \subseteq Requests

Init == /\ stage = [r \in Requests |-> "new"]
        /\ kind \in [Requests -> {"query", "mutation"}]
        /\ fields = [r \in Requests |-> 0]
        /\ ctx = [r \in Requests |-> NoContext]
        /\ at = [j \in Fields |-> "todo"]
        /\ pool = {}
        /\ lessee = [c \in Contexts |-> NoRequest]
        /\ tracker = [c \in Contexts |-> {}]
        /\ saved = {}
        /\ events = {}
        /\ robbed = {}

Leased(c) == lessee[c] # NoRequest

Selected == {j \in Fields : j[2] <= fields[j[1]]}

Unmade == {c \in Contexts : c \notin pool /\ \A r \in Requests : ctx[r] # c}

(* A new context is made only when none is waiting.                        *)
Offered == IF pool # {} THEN pool ELSE Unmade
-----------------------------------------------------------------------------
(* The scope.                                                              *)

(* Not the code: one UnitOfWork for all, as if its service were a singleton. *)
OpenShared(r, n) ==
    /\ stage[r] = "new"
    /\ Cardinality(Selected) + n <= MaxSelected
    /\ \E c \in IF \E q \in Requests : stage[q] = "open"
                THEN {ctx[q] : q \in {p \in Requests : stage[p] = "open"}}
                ELSE Offered :
         /\ ctx' = [ctx EXCEPT ![r] = c]
         /\ lessee' = [lessee EXCEPT ![c] = r]
         /\ pool' = pool \ {c}
    /\ stage' = [stage EXCEPT ![r] = "open"]
    /\ fields' = [fields EXCEPT ![r] = n]
    /\ UNCHANGED <<kind, at, tracker, saved, events, robbed>>

Open(r, n) ==
    /\ stage[r] = "new"
    /\ Cardinality(Selected) + n <= MaxSelected
    /\ \E c \in Offered :
         /\ ctx' = [ctx EXCEPT ![r] = c]
         /\ lessee' = [lessee EXCEPT ![c] = r]
         /\ pool' = pool \ {c}
    /\ stage' = [stage EXCEPT ![r] = "open"]
    /\ fields' = [fields EXCEPT ![r] = n]
    /\ UNCHANGED <<kind, at, tracker, saved, events, robbed>>

(* Not the code: a disposal that does not ask whether there is a lease.    *)
DisposeTwice(r) ==
    LET c == ctx[r] IN
    /\ lessee' = [lessee EXCEPT ![c] = NoRequest]
    /\ pool' = pool \cup {c}
    /\ tracker' = [tracker EXCEPT ![c] = {}]
    /\ robbed' = robbed \cup ({lessee[c]} \ {r})

(* Not the code: no disposal at all.                                       *)
DisposeNothing(r) == UNCHANGED <<leases, tracker>>

(* ApplicationContext.Dispose, called by r: the lease ends, whosever it    *)
(* is, and the context's state is reset before it waits in the pool.       *)
Dispose(r) ==
    LET c == ctx[r] IN
    IF Leased(c)
      THEN /\ lessee' = [lessee EXCEPT ![c] = NoRequest]
           /\ pool' = pool \cup {c}
           /\ tracker' = [tracker EXCEPT ![c] = {}]
           /\ robbed' = robbed \cup ({lessee[c]} \ {r})
      ELSE UNCHANGED <<leases, tracker>>

Answered(r) == \A n \in 1 .. fields[r] : at[<<r, n>>] \in {"done", "failed"}

DisposalOf(r, from, to) ==
    /\ stage[r] = from
    /\ stage' = [stage EXCEPT ![r] = to]
    /\ Dispose(r)
    /\ UNCHANGED <<kind, fields, ctx, at, saved, events>>

(* The scope disposes what it made, last made first.                       *)
DisposeUnitOfWork(r) == Answered(r) /\ DisposalOf(r, "open", "disposing")
DisposeContext(r) == DisposalOf(r, "disposing", "closed")
Finalize(r) == DisposalOf(r, "closed", "collected")
-----------------------------------------------------------------------------
(* The fields.                                                             *)
Set(j, s) == at' = [at EXCEPT ![j] = s]

ContextOf(j) == ctx[j[1]]

(* Another operation on this context has not returned.                     *)
Busy(j) == \E i \in Fields \ {j} : ContextOf(i) = ContextOf(j) /\ at[i] = "reading"

(* A disposed context throws; a context in use throws.                     *)
Throws(j) == ~Leased(ContextOf(j)) \/ Busy(j)

Fail(j) == /\ Set(j, "failed")
           /\ UNCHANGED <<scope, leases, tracker, saved, events>>

MayStart(r, n) ==
    /\ stage[r] = "open"
    /\ n \in 1 .. fields[r]
    /\ at[<<r, n>>] = "todo"
    /\ kind[r] = "mutation" =>
         \A k \in 1 .. n - 1 : at[<<r, k>>] \in {"done", "failed"}

(* The read begins: Redis, then the context. Either may fail.              *)
Read(r, n) ==
    /\ MayStart(r, n)
    /\ \/ Fail(<<r, n>>)
       \/ /\ ~Throws(<<r, n>>)
          /\ Set(<<r, n>>, "reading")
          /\ UNCHANGED <<scope, leases, tracker, saved, events>>

(* ... and returns. A mutation marks what it found, or what it adds, as    *)
(* changed; one that finds nothing, or is refused by its validator, is     *)
(* answered. The database, or Redis when it is filled, may throw.          *)
ReadReturns(r, n) ==
    LET j == <<r, n>> IN
    /\ at[j] = "reading"
    /\ \/ Set(j, "done") /\ UNCHANGED tracker
       \/ Set(j, "failed") /\ UNCHANGED tracker
       \/ /\ kind[r] = "mutation"
          /\ Set(j, "changed")
          /\ tracker' = [tracker EXCEPT ![ctx[r]] = @ \cup {j}]
    /\ UNCHANGED <<scope, leases, saved, events>>

(* Not the code: the event of a change sent whether it is saved or not.    *)
CompleteAnyhow(r, n) ==
    LET j == <<r, n>> IN
    /\ at[j] = "changed"
    /\ Set(j, "saved")
    /\ UNCHANGED <<scope, leases, tracker, saved, events>>

(* Not the code: a Complete that disposes the context it has saved with.   *)
CompleteAndDispose(r, n) ==
    LET j == <<r, n>> IN
    /\ at[j] = "changed"
    /\ ~Throws(j)
    /\ saved' = saved \cup tracker[ctx[r]]
    /\ Dispose(r)
    /\ Set(j, "saved")
    /\ UNCHANGED <<scope, events>>

(* Complete saves every change the context tracks, and nobody looks at how *)
(* many those were. When it throws, all of them stay tracked, and either   *)
(* none is saved, as the table refused one, or all, as its answer was lost *)
(* (SaveChanges in a retrying strategy, see EmployeeService).              *)
Complete(r, n) ==
    LET j == <<r, n>> IN
    /\ at[j] = "changed"
    /\ \/ Throws(j) /\ Fail(j)
       \/ /\ ~Throws(j) /\ tracker[ctx[r]] # {}
          /\ saved' \in {saved, saved \cup tracker[ctx[r]]}
          /\ Set(j, "failed")
          /\ UNCHANGED <<scope, leases, tracker, events>>
       \/ /\ ~Throws(j)
          /\ saved' = saved \cup tracker[ctx[r]]
          /\ tracker' = [tracker EXCEPT ![ctx[r]] = {}]
          /\ Set(j, "saved")
          /\ UNCHANGED <<scope, leases, events>>

(* The event is sent to the topic before the field is answered. An update, *)
(* or an addition whose address is cached, reads once more before that.    *)
(* Any of these may throw, with the change saved.                          *)
Publish(r, n) ==
    LET j == <<r, n>> IN
    /\ at[j] = "saved"
    /\ \/ Fail(j)
       \/ /\ events' = events \cup {j}
          /\ Set(j, "done")
          /\ UNCHANGED <<scope, leases, tracker, saved>>

Step(r, n) == Read(r, n) \/ ReadReturns(r, n) \/ Complete(r, n) \/ Publish(r, n)

End(r) == DisposeUnitOfWork(r) \/ DisposeContext(r)

Next == \E r \in Requests :
          \/ \E n \in 1 .. MaxFields : Open(r, n) \/ Step(r, n)
          \/ End(r)
          \/ Finalize(r)

Spec == Init /\ [][Next]_vars
-----------------------------------------------------------------------------
(* A request at work has its context to itself, which EmployeeService.tla  *)
(* and the change tracking rely on, as long as nobody disposes late: one   *)
(* that has lost it lost it to a request that rented it before and has     *)
(* disposed it a second time (UnitOfWork.cs 23-25, EmployeeService.cs      *)
(* 40-43). First disposals, failed fields and commits never cost a tenant  *)
(* the context, and without second ones two never share one.               *)
LostToLateDisposal ==
    \A r \in Requests :
        stage[r] = "open" /\ lessee[ctx[r]] # r =>
            \E s \in Requests : ctx[s] = ctx[r] /\ stage[s] \in {"closed", "collected"}

(* However often contexts are disposed, none is leased for good: a lease   *)
(* is a request's that is not answered yet, and no pooled context has one. *)
NoLeak ==
    \A c \in Contexts :
        Leased(c) => /\ c \notin pool
                     /\ stage[lessee[c]] = "open"
                     /\ ctx[lessee[c]] = c

(* Somebody works with r's context who has lost it.                        *)
Disturbed(r) == \E s \in robbed : ctx[s] = ctx[r]

(* Subscribers are told of committed changes only (EmployeeMutations.cs    *)
(* 24-28), though Complete's count is not looked at: a change is missing   *)
(* from a commit only when its context was reset meanwhile.                *)
EventsCommitted == \A j \in events : j \in saved \/ Disturbed(j[1])

(* What Complete writes, whether it is answered or throws, is the doing of *)
(* its own request: what requests before it left behind in a context is    *)
(* gone when the next one rents it.                                        *)
CommitsOwn ==
    [][\A r \in Requests : \A n \in 1 .. fields[r] :
          at[<<r, n>>] = "changed" /\ at'[<<r, n>>] # "changed" =>
              Disturbed(r) \/ saved' \ saved \subseteq {r} \X (1 .. n)]_vars
=============================================================================
