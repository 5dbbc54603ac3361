# MVC_CRUD: a verification development

The repository is an ASP.NET Core application that manages the employees of a
company: REST controllers and a GraphQL server over one service
(`EmployeeService.cs`), a MySQL 5.7 table reached through EF Core, a Redis cache,
token authentication, a RabbitMQ channel with a separate consumer process, and the
scripts that validate forms in the browser.
This directory holds TLA+ models of it, TLC configurations and TLAPS proofs.
File names below are relative to `src/src/` unless they start with `src/`.

## 1. Inventory

| Part | State | Operations | Interacts with | What is hard |
|---|---|---|---|---|
| **Employee service** `C.Dll.Application/Services/EmployeeService.cs` | none of its own; local variables between awaits | `AddAsync`, `GetAllAsync`, `GetWithIdAsync`, `GetWithEmailAsync`, `GetWithBadgeNumberAsync`, `AuthenticateEmployeeAsync`, `RemoveWithIdAsync`, `UpdateAsync` | validators, unit of work, Redis | several requests interleave between the awaits; check and insert are apart; invalidation is partial |
| **Redis cache service** `Services/RedisService.cs` | cached values under four families of keys, two minutes each | `Get`, `Set`, `Remove`, `UpdateExpiration` (no caller) | Redis | does nothing, silently, when the link is down; values over 1024 bytes are refused |
| **Fluent validators** `Validations/Fluent*.cs` | none | rules on format; queries for address, number, leader | unit of work (the request's own context) | their answers are stale when the row is written |
| **Attribute validators** `Validations/*Attribute.cs`, `UniqueEmployeeNumber.cs` | none | the same queries, in a scope of their own, before a REST call | unit of work | not run by GraphQL |
| **EF Core data layer** `D.Dll.Infra.EFCore`, migration, `ConfigCustomDbContext` | the `Employees` table, its auto-increment counter, the identity map of each context | queries, `AddAsync`, `Update`, `Remove`, `Complete` (`SaveChanges`) | MySQL | five retries after a transient failure, cascade on a self-reference, a unique index on the leader only, full-row UPDATE |
| **DbContext lifetime** pooled factory, scoped services, finalizer of `EmployeeService` | the pool, the leases and the tracked changes of its contexts | rent, dispose, dispose again, dispose from the finalizer | all requests | a context disposed after somebody else has rented it; parallel GraphQL fields on one context; refused changes that stay tracked |
| **GraphQL server** `GraphQL/` | in-memory topics and their subscribers | three mutations that publish, three queries, three subscriptions | employee service | events after the commit, in any order, with no data for an addition |
| **Client-side form validation** `A.UI.MVC/wwwroot/lib/jquery-validation-unobtrusive`, with the part of `jquery-validation` it drives | rules, errors found, pending remote checks, messages and marks of a form | adapters, `parse`, `element`, `form`, the `submit` and `reset` handlers, `onError`, `onErrors`, `onSuccess`, answers of remote checks | the browser, the server's remote checks | answers that come late, fail or are aborted while the user types, submits and resets |
| **Message channel** `MassTransitRabbitMqService`, `MessageController`, `MassTransit_RabbitMq_Consumer/` | queue `myChannel`, error queue, deliveries in work | `Send`, `Publish` (no caller), `Consume` | RabbitMQ | retries, redelivery, a consumer that stops, a broker that confirms what it has no queue for |
| **Tokens** `EmployeeTokenService`, `TokenTools*`, authentication schemes | none but the clock | login, exchange of an Id token for an access token, validation | employee service | expiry in two places |
| **Controllers, wrappers, error middleware** | none | answers of the service as HTTP answers; any exception as 500 | employee service | `Success` follows whichever of `Data` and `Errors` was assigned last |
| **MongoDB layer** `D.Dll.Infra.MongoDb` | a collection | the repository interface; nothing registers it | - | writes take effect at once, `Complete` does nothing, `Update` is an upsert |
| **Dapper layer** | - | every method throws `NotImplementedException` | - | - |
| Start-up, mapping, mail, Swagger, views, helpers | - | wiring and presentation | - | - |

What makes each of them correct:

* *table*: each leader is there and leads one employee only; an Id is one employee
  for ever; address and number are there and name one employee; passwords are sealed;
* *cache*: it may be stale but never shows another employee under an Id, and
  comes to agree with the table;
* *calls*: each is answered, and a successful answer is true when it is given;
* *writes*: each takes effect in one step, on the row as it is;
* *contexts*: a request keeps its context while no earlier tenant disposes it late, and
  commits its own changes only;
* *events*: an event is sent only for a mutation that was committed;
* *channel*: a message the queue took is consumed or ends in the error queue;
* *forms*: rules accept what the annotations accept; nothing unchecked is sent, and
  a submission is forgotten only for a value typed while it waited.

`PROJECT.json` lists the hazards, each at its line.

## 2. Plan

| Order | Module | What | Status |
|---|---|---|---|
| 1 | `EmployeeTable` | the table: constraints, cascade, counter, as pure operators | done |
| 2 | `EmployeeService` | the eight operations over table, cache and contexts | done |
| 3 | `EmployeeService_proofs` | types, referential integrity, identity of employees | done |
| 4 | `Directory`, `EmployeeDirectory` | abstract specification: a register of employees with atomic hire, change and removal; the refinement mapping under which `EmployeeService` implements it forgets cache and contexts | done |
| 5 | `FormAdapters`, `FormAdapters_proofs` | the adapters of the form scripts as operators, against what the annotations mean | done |
| 6 | `FormValidation`, `FormValidation_proofs` | one form: parsing, checking, remote checks, submission, reset | done |
| 7 | `MessageChannel`, `AtLeastOnce`, `MessageChannel_proofs` | sender, queue, consumer with retry, loss and stop; implements at-least-once delivery | done |
| 8 | `ContextPool`, `ContextPool_proofs` | pool, scopes, finalizer, fields of GraphQL requests, events | done |
| 9 | `EmployeeDirectory_proofs` | the refinement of 4 as a theorem, for updates that carry every field, and for one client | done |
| 10 | `EmployeeAnswers_proofs` | that a successful answer fits its call, under every fault | done |
| 11 | `EmployeeSerial_proofs` | what holds while calls come one at a time | done |

Tokens, the translation to HTTP answers and the MongoDB layer are not planned any
more (section 6 says why). Case-insensitive addresses (MySQL compares them so, Redis does not)
would be an equivalence on `Emails`; they are compared by identity.

## 3. What is modelled

### EmployeeTable

`Table` is a function from `Ids` to a `Row` or `NoRow`. `Consistent` is what the
migration `20211222004642_init` makes MySQL enforce (foreign key and unique index
on `LeaderId`); `DeleteRow` is `ON DELETE CASCADE`, by the least set closed under
"whoever this one leads"; `Follows` is the auto-increment counter after a restart;
`Endless` says that following `Leader` never ends, which Json.NET refuses.

### EmployeeService

State: `db`, `nextId` (MySQL), `redis`, `linked` (Redis and its link), and for every
request `pc`, `call`, `ctx` (the identity map of its DbContext), `valid`, `tries`,
`hand` (the local variable `employee`) and `answer`.

An operation runs from one awaited step to the next:

    Add      EmailRule  NumberRule  LeaderRule  Insert  AddCacheGet [ AddReload  CacheSet ]
    Get*     CacheGet  [ Read*  CacheSet ]
    Auth     CacheGet  [ ReadOne ]
    Remove   Invalidate  LoadForDelete  Delete
    Update   Invalidate  LeaderRule  EmailRule  LoadForSave  Save  Reload

Early returns are steps of their own (`ReadNone`, `LoadNone`, `DeleteMissed`,
`SaveMissed`, `InsertRejected`, `SaveRejected`). `Retry` is a transient failure
before a commit, `Unacknowledged` one after it, `Abort` any other exception, which
the middleware turns into an error answer. The environment expires keys, takes the
Redis link down and up and restarts MySQL, as far as `Faults` allows.

What is abstracted:

* names, phones and `Status` are left out, nothing is decided on them;
* the rules on format and length are one truth value of the arriving call;
* a query without an order (`FirstOrDefault`) may give any matching row;
* a row that a failing rule finds is tracked by the code and not in the model: the
  call ends there, and its context with it;
* a cached value is the set of entries it shows; absent and `null` are the empty set;
* EF Core's fix-up of the one-to-one relation `Leader` is a choice (`Released`);
* an Id is used up only by an INSERT that succeeds (MySQL also leaves gaps), and
  MySQL's limit on the depth of cascades is not modelled;
* a request runs one operation; the attribute validators are left out: they ask what
  the Fluent validators ask again, and refuse a `LeaderId` of 0 besides, which `AddAsync`
  (`EmployeeService.cs` 49) takes for no leader. So over REST fewer calls arrive than the
  model lets in; a GraphQL mutation meets none of them.

The definitions marked "Not the code", here and in the other modules, are wrong variants of the definition after
them. No specification uses them: they show which bug each property would notice,
in the repository's own code wherever a property is about that, else in what its
settings ask of a library.

Bounds: `MaxId` (Ids handed out), `MaxRetries` (five in the code), `MaxListed` (how
many employees fit in 1024 bytes). With `MaxRetries = 1` a statement is repeated and
runs out of repeats; with `MaxListed = 1` the list is refused as soon as there are
two employees; `MaxId = 2` lets one employee lead another and be removed with him,
`MaxId = 3` (serial run) adds a third to be hired after a removal or below the
second. The state needed to break a property in the wrong variants is within them.

### Directory and EmployeeDirectory

`Directory` is what the operations promise: clients place orders, an order to hire,
change or remove takes effect in one step between its arrival and its reply, and
"ok" is replied only after the effect. Its `order` is the order after the validators
have brought it into shape. It promises no more than the code can keep: an effect
whose acknowledgement is lost may be repeated or answered with an error, and a
change may free those who led themselves and lose their leader (EF Core's fix-up,
see `Released`). `EmployeeDirectory` maps the table to the register, the last of a
call's database steps to "done" and `tries` to `attempts`.

The refinement needs updates that carry every field (`Whole`) as soon as there are
two clients: `UpdateAsync` writes all columns of a row it read earlier, so of two
concurrent partial updates one may be undone, which is not one step "on the row as
it is". The one-client run checks it with partial updates too.

### FormAdapters

Every adapter of `jquery.validate.unobtrusive.js` but `remote` is an operator on
rules, registered in the order of the source. `SetRules` is `parseElement`: every adapter
whose attribute is there sets its rules, and of two that set one rule the later counts
(`Setters`). `Rules` is what jQuery Validate takes from them: `$.extend` passes over an
undefined parameter, and with it over the rule (`jquery.validate.js` 189-197), so that an
`equalto` whose other field is not found checks nothing. Only StringLength without a minimum and MaxLength meet in one rule, and
MaxLength then wins even where it allows more: no class of the repository carries both,
the inputs of the run that do have the stricter MaxLength (`OneMaximum`). `Holds` is the
methods of `jquery.validate.js`, on texts abstracted to kind, length and number. The
reference, `ModelAccepts`, is what the annotations mean when ASP.NET Core binds the
model (external). A user may type any text into the input and into the one it is
compared with. For attributes written by hand the reference is `Asks`, what each of
them says: `HandWrittenHeld` compares the two in both directions. It leaves out the
numbers for which a range with one bound decides wrongly (`AsLongAsBound`), because
`min` and `max` get their bounds as text and compare it as text
(`jquery.validate.unobtrusive.js` 313). A page is taken to load the methods its rules
need. Bounds: numbers below 100 (two digits, enough for an order of strings that is not
the order of numbers), lengths up to 5 beside limits of 2 to 4.

### FormValidation

One form, one browser event per step, because JavaScript runs each handler to its
end. `value`, `inDom`, `attached`, `rules` are the page; `net` is the validator's
record of remote checks (`previousValue`, `pending`, `pendingRequest`,
`formSubmitted` and the requests on their way), `view` what it found and shows.
`confirmed` (what the server confirmed last), `wish` (a submission that waits) and
`edited` (the fields changed while it does) are history. Requests may be answered in any order, late, or fail; the user types,
leaves fields, submits and resets meanwhile, and the page is loaded anew after a
submission. A field's remote check sends its own value only.

`wish` begins when `Submit` puts the submission off and ends with the answer that
decides it, with a reset, with a new submission or with a new page; typing does not end
it. `WaitingEnds` lists how it can end. Two of the ways are not what a user expects,
and they are the code's:

* a good last answer checks the whole form again, and a field whose value changed in
  between takes the old verdict while its new check runs (`previous.valid`,
  `jquery.validate.js` 1520). The form may be refused with a message about a value
  nobody has judged yet, which the answer that follows takes back;
* when the old verdict is good, the form passes and is submitted; the submit handler
  finds the new check pending, sets `formSubmitted` and returns (106-108), and
  `stopRequest` clears it again (1119): the submission is dropped in silence
  (`DroppedTyping`). `WaitingEnds` says that this happens only while a field the user
  has changed is being asked about, and that everything else is visible.

Where a good last answer finds a fault `formSubmitted` stays true, so that a later answer
may send the form without a click (hazard at `jquery.validate.js` 1108); the wait that
`wish` stands for has ended by then with the summary.

Bounds: two fields. `form` gives one a remote check and three values, the other a
pattern and two; `form_race` gives both remote checks and two values, and inserts
both after loading, so that parsing comes late. Both let requests fail. Requests per field need no bound:
the `remote` method aborts the former one (`mode: "abort"`).

The scripts are vendored, and no view of the repository renders
`_ValidationScriptsPartial` yet: the two models show what the scripts do with the
annotations of `EmployeeInputModel` and `EmployeeUpdateModel` when one does.

### MessageChannel and AtLeastOnce

`Send`, `Confirm` and `SendFails` are `MessageController.Send` over `SendAsync`;
`Accept`, `Deliver` and the loss of a connection are RabbitMQ; the rest is the
receive endpoint of `Program.cs` and `MessageConsumer.Consume`, one action for each
of its two writes. RabbitMQ and MassTransit 7.2.4 are not in the repository, they are
modelled from the settings the code gives them (durable queue, prefetch count 10,
three attempts, publisher confirms). The queue is a set, since up to `PrefetchCount`
deliveries are consumed at once and interrupted ones return: no order is left to
rely on. A delivery whose connection was lost (`live` false) is worked on to its end
and cannot be acknowledged.

`AtLeastOnce` is what the answer "Message Sent" is worth: from the first start of the
consumer on, a message is held until it was consumed or set aside. Before that start
the code promises less than it says: there is no queue, the broker confirms the
message and drops it (fate "lost"), and the caller is told that it was sent.

Bounds: two messages and `PrefetchCount = 1`, so that one message keeps the other
waiting; `Retries = 2` as in the code; `MaxLosses = 1` connection lost or consumer
stopped, at any point.

### ContextPool

A request is one service scope. It rents a context with its `UnitOfWork` (`Open`) and
gives it back up to three times: by `UnitOfWork.Dispose`, by the scope, which owns
the context too, and by the finalizer `~EmployeeService`, whenever it runs. A
disposal ends the lease, whoever has it by then (EF Core 5.0.12, external), so a late
one takes the context away from the request that rented it next; `robbed` keeps who
lost it so. `Read`, `ReadReturns`, `Complete` and `Publish` are a field of a GraphQL
request; fields of a query run together, those of a mutation one by one
(HotChocolate 12, external). A second use of a context at the same time throws, and
so does the use of one that is not leased. Besides, every call of Redis, MySQL or the
topic may throw, before the commit, in it (with the changes saved or not, all still
tracked) and after it, in which case the change stands and its field is answered
with an error. `LostToLateDisposal` says what `EmployeeService` assumes, that each request
has a context of its own, with its one exception: an earlier tenant that disposes a
second time, as the scope and the finalizer do. `EventsCommitted` and `CommitsOwn` exempt
the contexts that some request has lost so.

Bounds: three requests on two contexts, so that a context is rented anew while the
finalizer of its former request is still to come and another is in use; two fields
for a request and four in all; requests are interchangeable and so are contexts.

## 4. Runs

| Run | Instance | Checks | Shows |
|---|---|---|---|
| `serial` | 1 client, 3 Ids, all writes, lookups by Id | `SerialUniqueness`, `IdKeyFresh`, `EffectsStand`, `AtomicDirectory` | one call at a time, the validators do keep addresses and numbers apart, only keys of cascaded followers go stale under `EmployeeId`, a successful answer is in the table, and partial updates are atomic too |
| `race` | 2 clients, 2 Ids, lost acknowledgements, whole updates, lookups of employee 1 | `OneEmployeePerId`, `IdentityKept`, `AtomicDirectory` | an Id is one employee wherever it is seen; no stale UPDATE and no repeat revives a row; each write is one step of the directory |
| `all_faults` | 2 clients, all faults, logins, lookups by Id, number and address | `TypeOK`, `Referential`, `AnswersFit` | foreign key and unique index survive every interleaving, also restarts that reuse Ids; no answer by Id or number shows another employee, also from a stale cache; the address keys are outside (an address may be taken over) |
| `converge` | 2 clients, fairness, lookups by Id and address and of the list | `Answered`, `EventuallyAgrees` | every call ends; when the table rests the cache comes to agree with it for good |
| `adapters` | 22 annotated inputs and 15 written by hand, all texts | `NothingGoodRefused`, `NothingBadPassed`, `HandWrittenHeld` | the form accepts what the model accepts; attributes written by hand are checked for what they ask and nothing else |
| `form` | 2 fields, 1 remote check, 3 values, failures | `TypeOK`, `CheckedBeforeSent`, `TakenBackForCause`, `WaitingEnds` | nothing unchecked is sent; a mark goes only for a cause; a waiting submission ends in one of the ways listed |
| `form_race` | 2 fields inserted late, 2 remote checks, failures, fairness | `PendingBalance`, `WaitingEnds`, `Settles` | the counter of requests is right; a waiting submission is decided, and dropped in silence only for a value typed meanwhile |
| `channel` | 2 messages, prefetch 1, 3 attempts, 1 loss, fairness | `TypeOK`, `OneEndPerLoss`, `AtLeastOnceKept`, `EveryMessageEnds` | every message the queue took ends, at least once, and more than once only for a loss |
| `pool` | 3 requests, 2 contexts, 4 fields | `TypeOK`, `LostToLateDisposal`, `NoLeak`, `EventsCommitted`, `CommitsOwn` | a context is lost only to a late disposal; no lease leaks; else an event is sent for what was committed, and a commit is of the request's own changes |
| `numbers` | 2 clients | `UniqueNumbers` violated | two concurrent additions store one number twice |
| `emails` | 1 client, lost acknowledgements | `UniqueEmails` violated | one addition is stored twice |
| `passwords` | 1 client | `PasswordsSealed` violated | an update stores the password as typed |

The last three are disagreements between the code and its README or comments; the
findings in `PROJECT.json` quote both. Others were met that have no run:

* an update with an empty address passes every rule and is stored
  (`EmployeeService.cs` 154), where README.md 15 says "E-mail (valid and required)";
* `data-val-range` with one bound only, which no annotation renders, is compared as
  a string: `min` 5 refuses 10 (`jquery.validate.unobtrusive.js` 313);
* without `additional-methods.js`, `data-val-extension` becomes the rule `accept`,
  which has no method, so that checking the field throws; `addSingleVal` documents "val" as the default attribute and
  reads none;
* a `data-val-equalto` that names a field the form does not have checks nothing;
* fields that are parsed after the form has its validator get no rules, since
  `validate` returns the old one;
* `SendAsync` never returns false, so `BadRequest("Message not sent!")` cannot be
  reached: a failure leaves `MessageController` as an exception;
* a message sent before the consumer's first start is confirmed and dropped;
* the finalizer of `EmployeeService` can take a pooled context from another request.

Symmetry: clients are interchangeable in `race` and `all_faults`, requests and
contexts in `pool`; addresses and numbers are in `serial`, whose inputs hold every
combination of them. The runs with liveness use none. `CHECK_DEADLOCK FALSE` is in
`channel` and `pool`, whose systems may stop: when all messages are over, and when
all requests are collected.

Fairness:

* employees (`FairSpec`): weak fairness of the steps of each call, because what a call
  awaits completes or times out (`CommandTimeout(10)`, the timeouts of
  StackExchange.Redis), and of the expiry of each key, because `Set` gives it two
  minutes. No client is obliged to call, no fault to happen, and `Abort` is under no
  fairness. `Retry` is bounded by `MaxRetries`, as in the code.
* form: weak fairness of the answer *or the failure* of each remote check, which is
  all a browser grants. Nobody is obliged to type or submit, and so `Settles` names
  the two cases in which a submission waits for ever: a request of its own failed, or
  the user never stops typing. As requests fail in `form_race`, the third part of
  `PendingBalance`, for pages where none does, is the theorem's alone.
* channel: the broker takes what is on the wire and forwards what it holds, each
  message in its turn (strong fairness: others may fill the prefetch window again
  and again), and MassTransit runs each delivery to its end. Nothing in the
  repository starts the consumer again, so `EveryMessageEnds` is about consumers that
  are up again and again. A write is not obliged to succeed: after three attempts
  the message is set aside.

## 5. Proofs

For every value of the constants that satisfies the assumptions in the modules
(Ids and bounds are natural numbers, null is no value, seeds are consistent tables):

Employees (`EmployeeService_proofs` and the three named below)

* `TypeCorrect`: `Spec => []TypeOK`. The inductive invariant is `TypeInv`: besides
  the types it says that only an addition is ever about to insert, with all its
  fields there and no leader 0, without which `NewRow` would have no type.
* `ReferentialIntegrity`: `Spec => []Referential`. The heart is the lemma
  `CascadeConsistent`: whoever is led by a removed row is removed with it.
* `IdIsOneEmployee`: `Spec => []OneEmployeePerId`, and `RowsAreKept`:
  `Spec => IdentityKept`, both when `"restart" \notin Faults`. `OneEmployeePerId` is
  not inductive, an INSERT could meet an Id that a stale key still shows; `IdentityInv`
  adds that every Id on show is below the counter. Each step is then shown to stay
  within a set `K` that holds everything on show and every version of it. The
  assumption is needed: MySQL 5.7 forgets its counter in a restart, so an Id may come
  to mean another employee while Redis still shows the first.
* `ImplementsDirectory` and `OneClientIsAtomic` (`EmployeeDirectory_proofs`):
  `Spec => AtomicDirectory`, the refinement, under two sets of assumptions. `StepAllowed`
  is common to them: from `Orderly` (which operations come by which step, and that a
  row in hand has the Id asked for) and `Fitting` (what an UPDATE of all columns is about
  to write is the row as it is now, with the call's fields changed) every step, a
  restart included, is one of `Directory` or none. `Fitting` is then shown
  * for any number of clients when `"restart" \notin Faults` and every update in
    `Inputs` carries all its fields (`Whole`): `WholeMerge` leaves nothing of the row that
    was read but its number, and `IdentityInv` says that this is the number still;
  * for one client (`OneAtATime`) with no further assumption: its context mirrors the
    table until the first write (`Mirrored`), and an UPDATE repeated after a lost
    acknowledgement is the change made once (`ChangedTwice`).

  Partial updates of two clients are in neither, where it is false: a partial update
  writes back the other columns as it had read them (hazard at
  `GenericRepository.cs:53`).
* `AnswersFitCalls` (`EmployeeAnswers_proofs`): `Spec => AnswersFit`, with no further
  assumption. `AnswerInv` adds to the types which operations come by which step and
  with what keys (`InStep`), and that an entry answers to the key it is cached under
  (`Filed`), addresses aside: an address may be taken over by another employee while
  its key still shows the first.
* `ValidatorsSuffice` (`SerialUniqueness`), `IdKeysFollow` (`IdKeyFresh`) and
  `WritesStand` (`EffectsStand`), in `EmployeeSerial_proofs`, when there is one request
  at a time (`OneAtATime`), the seeds have no duplicates and no acknowledgement is lost
  (a repeated INSERT hires twice); `IdKeysFollow` when there are no faults at all.
  `Vetting` says what the one call has found out so far: the address and the number
  it validated are still free, the rows its context tracks are as the table has
  them, and the row it is about to write is the table's row with its own fields
  assigned. `KeyInv` adds that a key stays empty from its invalidation to the write
  (`Cold`), and that a cached employee never leads himself, because Json.NET refuses
  the loop: so SaveChanges, which may release such a leader besides the row it writes,
  leaves no stale key behind. `DoomedFollow` is the cascade once more: whoever goes
  below the removed row goes with his leader.

Forms (`FormValidation_proofs`), for any fields, values and rules

* `FormTypes`: `Spec => []TypeOK`, and `RequestsBalance`: `Spec => []PendingBalance`,
  by `IInv`, which counts the requests field by field (`AskType`, `AskBalance`,
  `StoppedKeeps` say what asking and answering do to the record).
* `NothingUnchecked`: `Spec => []CheckedBeforeSent`. The invariant is about the record
  of remote checks: a field that is not pending and whose record says valid for its
  present value was confirmed for it, and a request's own answer is for the value
  of its record.
* `MarksTakenBackForCause`: `Spec => TakenBackForCause`, and `WaitingIsSettled`:
  `Spec => WaitingEnds`, by `ViewInv`, which ties what the validator shows to what
  it knows: of the fields looked at last only the accused are marked (`Tidy`); a value
  on record as refused is not a confirmed one, unless it is being asked about anew
  (`Refuted`); nobody asks about an empty field or one without a remote rule (`Asked`);
  and while a submission waits nothing is wrong but what an answer has refused or the
  user has changed in the meantime (`Stands`). The last is what the end of the wait is
  explained from, in the step of the answer that checks the form anew.

Adapters (`FormAdapters_proofs`), for any annotations, bounds and texts

* `GoodFormsPass`: `Spec => []NothingGoodRefused`, with no further assumption.
  `RuleMeans` compares, annotation by annotation, what its rule accepts with what it
  means; `AnnotatedSetRules` says that every rule set for an input is that of an
  annotation, and that of each annotation there, from this annotation or from a later
  one; by `AnnotationGiven` none of them lacks its parameter, so that `$.extend` drops none
  (`AnnotatedRules`).
* `BadFormsStop`: `Spec => []NothingBadPassed`, when every input satisfies `OneMaximum`.
  Without it the theorem is false: StringLength(3) and MaxLength(4) on one property let
  four letters pass.

Channel (`MessageChannel_proofs`), for any messages, prefetch count, retries, losses

* `ChannelTypes`: `Spec => []TypeOK`. The types need `DoneForCause`: a delivery waits
  only while it has an attempt left.
* `KeepsPromise`: `Spec => AtLeastOnceKept`, the refinement. Each step is one of
  `AtLeastOnce` or changes nothing its variables are mapped to. It rests on
  `OnePlace` (a message is in one place only), `Somewhere` (a message sent is
  somewhere) and `DoneForCause` (what is about to be acknowledged was written or
  set aside).
* `OneEnd`: `Spec => []OneEndPerLoss`, by `CountInv`. The ends a message has had are not
  enough to count, an end may be on its way: the invariant adds the deliveries under
  way, which may each come to an end, and one for a delivery still to begin, and bounds
  the sum by one more than the losses.

Contexts (`ContextPool_proofs`), for any requests, contexts and fields

* `PoolTypes`, `ContextKept` (`LostToLateDisposal`), `NoLeaseForgotten` (`NoLeak`), by
  `LeaseInv`: every lease belongs to an open request with that context, every open
  request that was not robbed has its lease, and behind every robbery there is a request
  that had the context before and has disposed it twice (`RobbedLate`): a robbed request
  may rob the next one with its own first disposal, so that the chain of robberies has
  to be followed to its beginning.
* `EventsTrue` (`EventsCommitted`), by `EventInv`: a field on its way to its event is
  tracked or saved unless its context was disturbed.
* `CommitsTheirOwn`: `Spec => CommitsOwn`, by `FieldInv`. A context tracks changes made
  with it only, and those of its present lessee unless some request has lost it
  (`TrackedOwn`); the fields of a mutation take turns (`InTurn`), so that none is between
  its change and its commit while another starts.

Every invariant, every action property and both refinements of the passing runs are
stated by one of these theorems, but for `HandWrittenHeld`, which is model-checked on
15 inputs. Only model-checked, too: liveness (`Answered`, `EventuallyAgrees`, `Settles`,
`EveryMessageEnds`), which is out of this prover's reach.
White text and loose addresses are outside the theorems
about adapters, as they are outside the properties.

## 6. Not modelled

* *Tokens and authentication schemes*: no state but the clock; login itself is
  `AuthenticateEmployeeAsync` of `EmployeeService`.
* *Attribute validators*: they ask before a REST call what the Fluent validators ask
  again, and refuse a `LeaderId` of 0 besides (`LeaderIdMustExistInDbIfProvidedAttribute.cs`
  15-30), which the service would take for no leader.
* *MongoDB layer*: nothing registers it. *Dapper layer*: every method throws.
* *Publish* of the message service (nothing calls it) and the idle loop of `Worker`.
* *Subscribers* of the GraphQL topics, requests given up before they are answered,
  and the mutations of `AccessControlMutations` that publish nothing.
* *Other parts of the form scripts*: submission by a button with class `cancel` or
  attribute `formnovalidate`, which skips validation (`jquery.validate.js` 53-60, 101),
  several forms, hooks of a page, additional fields of a remote check, groups, focus.
* *Addresses without regard to case*: they are compared by identity.
* Start-up, mapping, mail, Swagger and views: wiring and presentation.

The components in `PROJECT.json` say of each part what is left out.
