# LibraFlow: TLA+ models, checks and proofs

LibraFlow is a library-management service: a FastAPI application whose
handlers are ordinary functions run by a pool of threads, in one or several
processes, over PostgreSQL (tables), Redis (cache, event stream) and objects
that live in each process (reservation queues, transfers, search structures,
idempotency store, circuit breakers). A second backend keeps everything in
memory. This directory models the parts in which those threads, processes and
failures meet, checks them with TLC on small instances and proves all their safety properties
but one with TLAPS for instances of any size.

## Inventory

| Component (source under `src/libflow/`) | State | Operations | Talks to | What is hard | What makes it correct |
|---|---|---|---|---|---|
| Circulation (`services/circulation_service.py`) | rows of copies and users, borrow records | issue, return, smart allocation | repositories (one transaction per request), reservation queue, outbox, forecaster, cache, notifications | races on a copy and on a user, failure between the writes, in-memory effects before the commit | one borrower per copy, rows and events agree, limits hold, every request is answered |
| Copy life cycle (`core/book.py`, `core/book_state.py`) | status, borrower, reserver, branch, target | check_out, return_book, reserve, transfers | everything that writes copies | a state object accepts more than its caller expects | status and borrower move together |
| Reservation queue (`patterns/reservation_queue.py`) | dictionary of deques, dictionary of entries; per process, no lock | reserve_book, handle_copy_returned | called inside a return's transaction, notifies | check-then-create, lost at restart and at rollback, holds never end | an accepted entry is queued until assigned, and assigned once |
| Repositories (`storage/postgres.py`, `storage/inmemory.py`) | tables; dictionaries of live objects | locking_section, get and save | SQLAlchemy sessions; lock manager | lost updates by `merge` of detached objects; objects shared by threads | atomic transactions, row locks; mutex per copy |
| Transfers (`distributed/branch_manager.py`, `api/routers/branches.py`) | transfers in memory, copy rows | start and complete a transfer | copy rows, without the copy's lock | overwriting a checkout, a copy registered a second time, transfers lost at restart | a copy in the hands of a user is not moved, a transit ends |
| Rebalancer and forecaster (`ai/rebalancer.py`, `ai/demand_forecaster.py`) | counts, tracked transfers | plan, execute, complete, checkout hook | branch manager (the transfers people ask for are filed there too), copies | plans executed when they are old, by two requests at once; arrivals confirmed twice | no branch is stripped or flooded, an open transfer is of a copy that travels |
| Catalog and search (`services/catalog_service.py`, `dsa/trie.py`, `dsa/inverted_index.py`, `dsa/graph.py`) | books; index, trie and graph per process, no lock | register, add a copy, search, suggest, walk | repositories, cache | steps of two registrations mixed, empty after a restart, objects that are not the repository's | search says what the catalog says |
| Smart allocation (`dsa/priority_queue.py`) | a heap per title | request, drop | issues like a checkout | look, pop and issue are three steps; the queue can be made twice; calls of `heapq` overlap | a request is served once, urgent ones first |
| Billing (`services/billing_service.py`, `patterns/strategy_payment.py`, `patterns/strategy_fine.py`) | user balance, shared strategy field | pay_fine, charge_fine | user repository | read-charge-save without a lock | what is charged and paid is what the row says |
| Caches (`storage/cache.py`, `storage/redis_cache.py`) | cached book details, LRU order, TTL | get_or_compute, invalidate | Redis, breaker, every writer of books and copies | storing what was read before an invalidation, Redis away | stale values are rare and end |
| Outbox and relay (`storage/outbox.py`) | `outbox_events` | save, claim, publish, mark | event bus | crash between claim, publish and mark; retries; several relays | exclusive claims, counted duplicates |
| Event bus (`distributed/event_bus.py`) | Redis stream, consumer group | publish, subscribe, read, handle, acknowledge | relay, subscribers | entries left pending, a group that was not made, nobody subscribed | every entry is handled once |
| Circuit breaker (`storage/circuit_breaker.py`) | state, failure count, time of last trip | call | Redis cache, risk model | outcomes that arrive late | fails fast when open, recovers |
| Idempotency (`api/idempotency.py`) | dictionary of keys; per process | get, set_in_progress, set_completed, clear | issue, return and pay endpoints | racing retries, leases, replicas, late failures, refusals that return normally | one effect per key, replay of the stored answer |
| Lock manager (`storage/lock_manager.py`) | mutexes; Redis leases; versions | acquire, release | the in-memory repository | timeouts | mutual exclusion |
| Risk model and recommendations (`ai/`), authentication, notifications, audit, wiring, metrics | | | | | not modelled, see below |

`PROJECT.json` has the same list with the status of each part, and under
`hazards` the places where these parts can go wrong in a way a test would
hardly reach, with the properties that watch them.

## Modules

| Module | Models | Builds on |
|---|---|---|
| `CopyState` | the methods of a copy, as operators on a record | |
| `LoanLedger` | abstract: copies are lent, come back, and may be put aside | |
| `Circulation` | checkout, return and reservation on PostgreSQL, with rollback and restart | `CopyState`, implements `LoanLedger` |
| `Transfers` | transfers, arrivals and added copies as writers without locks | `CopyState`; checkouts are the steps of `LoanLedger` |
| `MemoryLibrary` | circulation and smart allocation on the in-memory backend | `CopyState` |
| `Rebalancer` | demand, plan, execution, transfers people ask for, arrivals, checkout hook | `CopyState` |
| `Billing` | payments and fines on a user row, fine strategies | |
| `Catalog` | registration, copies, index, trie, graph of related books | |
| `CatalogWalks` | the walks over the graph of related books | extends `Catalog` |
| `BookCache` | the two caches between database and readers | |
| `OutboxRelay` | the outbox table and the relay threads | |
| `Delivery` | the stream and its consumers behind the outbox | extends `OutboxRelay` |
| `CircuitBreaker` | one breaker shared by threads | |
| `Idempotency` | the idempotent handler over per-process stores | |
| `MC*` | definitions for TLC instances; modules without one need none | |
| `*Proofs` | the theorems of a module; `ReliabilityProofs` has those of `OutboxRelay`, `Delivery`, `CircuitBreaker` and `Idempotency` | the modules and the TLAPS library |

Modules contain, before a definition, the faults used to test the properties
("Fault: ..."); they are no part of `Next`.

Several promises one would expect of this code hold only until two requests
overlap in a particular way. The properties then name the exception, usually
by a history variable (`overtaken`, `readded`, `lost`, `overlap`, `raced`,
`rivals`, `excused`, `disturbed`), and say what holds of everything else. What happens in the excepted
cases is listed under "What the models show".

### Circulation

Each request is one thread's run of `issue_physical_book`,
`return_physical_book` or `reserve_book`, handled once. `pc[r]` says where it is.

* **Rows and locks.** `copyRow`, `userRow` and `outbox` are committed data.
  `copyLock` and `userLock` are PostgreSQL row locks: taken by
  `SELECT ... FOR UPDATE` (`IssueLock`, `ReturnLock`, `IssueUser`) or by the
  first `UPDATE` (`ReturnFlush`), released when the transaction ends
  (`Unlock`). A thread that needs a lock somebody holds is simply not enabled.
* **Objects.** `copyObj` and `userObj` are the detached objects a request works
  on; `dirty` the columns `save_user` found different when it read the row
  again, which are the ones its `UPDATE` sets. This is where a return loses
  another request's update. Of the user columns two are kept: the list of
  loans, which circulation writes, and the balance, which it only tests. The
  borrow history appears only in `ReturnFlush`: it decides whether there is an
  `UPDATE` to send.
* **Steps.** A request's step ends where another can see or disturb it. The
  checkout writes everything in one step, `IssueCommit`, since it holds both row
  locks from its tests to its commit. A return is split at each of its reads,
  flushes and queue operations. `reserve_book` is split at each access of the
  shared dictionary, because nothing locks it. `ReturnAssign` is one step: the
  deque's `popleft` is atomic and decides who gets the entry.
* **The race for the queue.** A reservation that found no deque and is about to
  store an empty one is `Creating`; `raced` are the entries accepted while
  another one was. The window ends with that store, and so does the exception
  of `ReservationKept`: what is accepted later must be kept.
* **Failures.** `Rollback` can end a transaction at any of its points; what was
  done to the queues stays. `Restart` ends all requests and empties the queues.
* **Refinement.** `Ledger` maps the copy rows and the outbox to `LoanLedger`;
  `ImplementsLedger` says each commit is one loan or one return and nothing
  else shows.
* **Left out.** Requests for copies or users that do not exist (they raise
  before any effect); the order of JSON lists; loan days and due dates;
  notifications and audit entries. Cache, forecaster and rebalancer hooks are
  in `BookCache` and `Rebalancer`.

### Transfers

`Move` is `POST /branches/transfer`, `ArriveRead` to `ArriveComplete` the
completion of a transfer, `AddCopy` is `add_physical_copy`. All three save
detached objects in a session of their own: `Merge` reads the row again and
notes the columns that differ, `Commit` sets these. A second `Merge` and
`Commit` of an added copy write every copy of the title as it was read
(`later`). The id of an added copy comes with the request and is not looked up:
adding one that exists puts a new, available copy in its place, at the branch
of the request, whoever has it. `overtaken` are the copies whose row another
request committed between a request's reading and saving of it, `readded` those
registered again; the properties name them one by one.
Checkouts and returns are one step, as `LoanLedger` allows.
`SaveFails` and `Restart` part the rows from the transfers in memory.

### MemoryLibrary

The same service over `storage/inmemory.py`: objects are live, so every
assignment is visible at once and nothing is rolled back. `mutex` is the
lock manager's mutex of a copy; the user objects have none, and the check of
the limit (`IssueUser`) and the loan (`IssueLoan`) are different steps.

Smart allocation has no lock. A request looks for the queue of its title
(`RequestLook`), makes one (`RequestCreate`, whatever is there by then),
fetches it and the counter, sets the counter and pushes. A queue is its number
in `counter`, the last one is in the dictionary; a request in an older one is
never served. A drop is `DropLook`, `DropPop`, `DropIssue`. `heappush` and
`heappop` change the list first and compare afterwards, in Python (`__lt__`), so
the sifting is a step of its own (`RequestSift`, `DropSift`), during which other
threads push and pop. `heapq` notices a list of another length and raises; the
request a pop had taken is then gone (`DropSiftError`). Otherwise it goes on
swapping in a list that changed. The model keeps the set of the requests in a
list and not their positions: when nothing disturbed it, the first element is one
that precedes all others in the order `Before` (`Top`); while a call sifts or
after two have overlapped (`Unsorted`), it may be any, until the list is down to
one. `CalculatePriority` keeps the weights of the code in units of 1/10000.

### Rebalancer

`Plan` computes candidates, orders them by utility and fills the plan under the
cap per branch, as one step. `Ranked` is the set of the orders the heap may yield
(equal candidates come out in any), `Filled` the loop over one of them. `Check`
and `Skip` are the look of `execute_rebalancing_plan` at an item. Then come the
steps of `request_transfer`: the copy is looked at again (`Dispatch`), the state
object moves it (`Start`), the transfer is filed (`File`). `Ask` is
`POST /branches/transfer`, which enters them with a copy a person chose: no cap,
no look at the stock, and the same dictionary of transfers. `Abort` is
`request_transfer` raising, which drops the rest of the plan. An arrival is
`Arrive` (the request is tested), `ArriveDispatch` or `ArriveRefused` (the copy's
state is), `ArriveFree` and `ArriveClose`. A checkout is `Look` and `Checkout`.
`raced` collects the copies that a request took after another one had come in
between. `WeekPasses` and `MonthPasses` are the windows of the forecaster moving
on. Only the in-memory backend is modelled: on PostgreSQL `list_books` returns
books without copies, so every plan is empty.

### Billing

`PayRead`, `PaySetStrategy`, `PayExecute`, `Merge`, `Commit` are the steps of
`pay_fine` between which other threads can act; `ChargeRead` computes a fine and
reads the user. `processor` is the strategy field all threads share. Amounts are
in quarters of a cent: with the multipliers of the code every fine is then an
integer before `round(..., 2)`, which the model leaves out. The bond that the
docstring of the tiered policy names is charged by no code and is not in the
model.

### Catalog

A registration writes the database, then the index in three steps, then trie
and graph. `add_physical_copy` is `AddRead`, `AddCopy`, `AddBook`. Books are
objects: the index keeps the object it was given; in memory the repository
keeps the same one and `save_copy` hangs copies into it, on PostgreSQL nobody
ever does (`object`, `shownObject`, `holding`). `Restart` empties the search
structures, since nothing rebuilds them.

Queries are operators on the state. A ranking by floating-point scores is left
open, so a query with a limit has a *set* of possible answers: `Search` is any
`SearchLimit` of the books that match, or all if there are fewer. In the trie a
prefix is the set of the phrases below its node. `search_prefix` keeps the best
entry of each book in that subtree (`BestItems`) and `Suggestions` are the
answers with the `SuggestLimit` highest weights, in either order of equals: a
book's former title counts, if it is below the prefix and weighs as much as the
last one. `PageAvailable` is what the page of a book shows.
`CatalogWalks` has the walks `Bfs`, `Dfs`, `Related` over the relations, which only
the seed data creates. They are recursive as in the code and are compared with
`Ball`, the books at most n relations away.

### BookCache

A book is its version. A reader looks up (`Hit`, `Miss`), loads (`Load`) and
stores (`Store`) in separate steps. Catalog writers commit and then invalidate
(`ChangeCommit`, `ChangeInvalidate`), the desk invalidates and then commits
(`DeskInvalidate`, `DeskCommit`), the rebalancer's moves do not invalidate
(`MoveCopy`). `open` is the breaker in front of Redis, which `get` and `set` go
through and `invalidate` does not; when it opens is `CircuitBreaker`'s business.
`order` is the `OrderedDict` of the in-memory cache, oldest key first: a hit
moves its key to the end, a store of a new key into a full cache drops the head.

### OutboxRelay and Delivery

A relay's poll is: claim a batch (`Fetch`), then for each event publish it and
mark it. `Broker` makes the bus unreachable and reachable; an error may hide a
delivery (`PublishError`). `MarkPublishedError` and `MarkFailedError` are
database errors, `Crash` the death of the process; both are bounded. Nothing in
the code brings an `IN_FLIGHT` or `FAILED` row back, and no action does.

`Delivery` composes it with the stream: every delivery of the relay appends an
entry (`Appended`). `Subscribe` tries once to make the consumer group, swallows
what that raises and starts the consumer thread; without the group the thread
polls in vain. No code of the application calls `subscribe`, so no process has
to, and `StopConsumer` ends a thread again. A consumer that `Polls` reads new
entries for the group (`Read`), calls the handlers (`Handle`), acknowledges
(`Ack`). A read whose answer is lost, a failed
acknowledgement and a crash abandon the batch (`Abandon`); nothing claims
pending entries. One fault of any kind per behaviour (`MaxFaults`).

### CircuitBreaker

A thread's `call` is three steps: admission under the lock (`Call`, `Reject`),
the operation without it (`Operation`, `Unexpected`), and its outcome under the
lock again (`OnSuccess`, `OnFailure`). `expired` is the comparison of the clock
with `last_state_change`; `since` is history, the threads admitted after the
last trip. `failure_count` is counted up to `CountCap`, at or above the
threshold, because the code only compares it with `>=`.

### Idempotency

`store[p]` is the dictionary of process `p`: `default_idempotency_store` is
constructed without a Redis client, so this is the store in every deployment.
`LeaseExpires` and `RecordExpires` are the two expiry times. An operation
returns after its effect (`Execute`), returns normally without one
(`ExecuteRefused`: `pay_fine` answers a refused payment with `FAILED`), raises,
or raises after its effect (`ExecuteFailsLate`). What returns is stored and
replayed, refusals too: `result` is what it said, `took` who took effect.
`window` and `excused` are history: which requests took effect under a key within a process and a record's
life, and whether a lease overran or an operation failed late there.

## Runs

| Run | Instance | Distinct states | Checks |
|---|---|---|---|
| `circulation` | 2 copies of 1 title, 2 users, 3 checkouts, 2 returns, 1 reservation, limit 1, balances below and above the fine limit | 148,866 (symmetry) | `NoDoubleCheckout`, `HolderAgrees`, `HeldForReserver`, `AssignedOnce`, `LimitUntilReturn`, refinement `ImplementsLedger` |
| `circulation_live` | 1 user, 2 copies, 2 checkouts, 1 return, 2 reservations, limit 2 | 37,696 | `ReservationKept`, `EveryRequestAnswered` |
| `transfers` | 2 copies, 2 branches, 2 transfers, 1 arrival, 1 added copy, 1 loan | 543,170 (symmetry) | `LoanKept`, `TransitTracked`, `TransitEndsAtTarget` |
| `billing` | 1 user, 2 payments, 1 fine, 1 checkout | 607,342 (symmetry) | `AccountBalances`, `TakenAsAsked`, `FinesFollowPolicy` |
| `book_cache` | 2 books, 2 readers, 1 editor, 1 desk, capacity 1, both backends | 272,876 | `TypeOK` with the capacity, `StaleOnlyByRace`, `StaleEnds` |
| `breaker` | 3 threads, threshold 2 | 5,284 | `CountMatchesState`, `OpenAdmitsNobody`, `Recovers` |
| `delivery` | 2 events, 2 relays, 1 consumer, batches of up to 2, 2 retries, 1 fault | 618,616 | `OneOwner`, `PublishedWasDelivered`, `DuplicatesAreCounted`, `HandledAsOftenAsCounted`, `OrphansAreLosses`, `EveryEventHandled` |
| `idempotency` | 3 requests with one key, 2 processes, one overrun, late failure and restart | 175,482 | `OncePerProcess`, `ReplayIsGenuine`, `KeyReleased` |
| `memory_library` | 2 threads, 2 users, 2 copies, limit 1, 3 allocation requests, 1 reservation waiting | 5,564,456 (symmetry) | `LoansAgree`, `OvershootBounded`, `RequestServedOnce`, `OneQueuePerThread`, `UrgentFirst` |
| `rebalancer` | 1 runner, 1 mover, 2 confirmations at a time, 2 titles of 2 copies, 2 branches, cap 1, 2 transfers | 3,183,823 (symmetry) | `BackpressureBounded`, `OpenTransfersMove`, `PlanLeavesStock` |
| `catalog` | 2 threads, 2 of 3 books registered, 2 registrations or added copies, 2 texts, limits of 2, depth 2 | 65,295 | `SearchFollowsCatalog`, `SuggestedByName`, `WalksAreSound` |
| `unlocked_writer` | 1 copy, 2 users, 1 transfer, 1 arrival, 2 loans | ends in a violation | `NoDoubleLoan` |

Why the bounds are enough for what is asked.

* `circulation`: three checkouts and two returns allow checkout, return,
  checkout of a copy with one more of each racing, and a reservation that is
  assigned and picked up; two copies share a waiting list; a limit of 1 makes
  the limit bind. `circulation_live` has two reservations, so that the creation
  of the queue races and the entry accepted after that race has to be kept, and
  a limit of 2: two copies of one user contend for the user's row.
* `transfers`: two transfers of one copy in a row, or of two copies at once, an
  arrival of either, and an added copy, a new one or one that exists, that saves
  both; one loan to be kept. A second arrival is left to the proofs.
* `billing`: two payments race for the processor and the row, with a fine and a
  checkout beside them; amounts above the debt and of zero. A charge for 11
  days makes `FinesFollowPolicy` look at every number of days up to it, past
  both ends of the tiers.
* `book_cache`: capacity 1 and two books make every second store an eviction;
  two readers and a writer of each kind; two versions after "not registered".
* `delivery`: a query may return any part of the backlog, so two events give
  whole and partial batches, of the relay and of the consumer; two retries
  separate "once more" from "given up"; one fault of every kind.
* `memory_library`: with two copies and a limit of 1 two threads can both pass the
  test of the limit, and a third checkout that did would break the bound. Three
  requests of students with near, far and near exams (`Applicants`) are the fewest
  with which a pop can come into the sifting of another and pass a more urgent
  one; two threads make the queue twice. One user comes to the desk as well
  (`Visitors`).
* `rebalancer`: the thresholds are scaled to 1 and 2, so that every combination
  of surge, moderate and no demand of two titles at two branches is reached with
  few checkouts; a cap of 1 binds with two titles to send. One transfer is
  confirmed twice, while the run or a person moves the copy again. People borrow
  and move one copy (`Wanted`). Several runs at a time, whose caps add up, are left
  to the proof.
* `catalog`: the two texts of a book differ in words, title, rating and format,
  and the former title may be longer and weigh more; three books and limits of 2
  make the limits bind; two threads register books or add copies. All 8 graphs
  of three books, with a depth that leaves one out of reach.
* `breaker`: three threads with threshold 2 allow a trip, a late outcome and a
  probe at once. `idempotency`: two requests race and a third retries.

Deadlock is checked in `Circulation` and `CircuitBreaker`. In the other runs the
requests of the instance are handled once or a bound is reached, and the system
may come to rest.

### Fairness

* `Circulation`: weak fairness of `Step(r)` for each request. A thread that is
  not waiting for a row lock is scheduled, and the holder of a lock ends its
  transaction. Starting a request, failing and restarting are not fair.
* `CircuitBreaker`: time passes, an admitted call runs to its end, and requests
  keep coming from some thread. `Recovers` has the health of the dependency in
  its premise, not in the fairness.
* `Delivery`: weak fairness of `Work(w)` and `Consume(c)`: a relay and a consumer
  that was started are daemon threads that loop. Nobody has to subscribe, as
  nothing in the application does. That some process subscribes for good, that
  the group was made and that the broker stays reachable is in the premise of
  `EveryEventHandled`; crashes and errors are not excluded.
* `BookCache`: an entry's TTL passes, and a reader that began a load ends it.
* `Idempotency`: weak fairness of `Step(r)`; expiry and restarts are not fair.

### What the models show

One run compares the code with its own words and ends in a violation, a
finding in `PROJECT.json`: `unlocked_writer`. `issue_physical_book` "guarantees
exactly one concurrent checkout succeeds for a given copy"; among checkouts and
returns this holds (`NoDoubleCheckout`, proved), but a transfer that read the
copy before the checkout saves it after it, the arrival makes it available, and
it is lent a second time.

Three more promises in comments and documents are not kept by the code, as the
comments of the properties say:

* `storage/outbox.py:182` "Guarantees no event loss on server restart or broker
  reconnect": an event claimed by a relay that ends before publishing it stays
  `IN_FLIGHT`, and five failures give an event up. `EveryEventHandled` says that
  these and lost batches are the only ways to lose one.
* `README.md:91` "subject to per-branch concurrent in-transit limits": runs that
  plan at the same time each fill the limit, and transfers people ask for have
  none. `BackpressureBounded` says how far the rebalancer can go.
* `patterns/strategy_fine.py:84` "Days 10+: 2.5x Base rate + Fixed replacement
  bond": `calculate_fine` adds no bond. `FinesFollowPolicy` states the tiers without.

The exceptions that the passing properties name are all reachable:

* `LimitUntilReturn`: a return reads the user row without a lock; saved after a
  concurrent checkout of the same user it removes that loan from the row, and
  the borrow limit no longer counts it.
* `ReservationKept`: of first reservations of a title that race, one may be put
  into a deque that the other replaces (`raced`), and is in no queue from then
  on; a return whose commit fails has used up a reservation and told its user.
* `LoanKept`, `TransitTracked`, `TransitEndsAtTarget`: unlocked writers overwrite
  each other and checkouts (`overtaken`); a copy added again is taken from its
  borrower or from its transfer and put at another branch (`readded`), so that a
  lent copy can be lent again with no two requests at a time; a copy
  whose transfer was lost with the process, or whose save failed, stays in
  transit (`lost`).
* `AccountBalances`, `TakenAsAsked`: overlapping payments, fines and checkouts
  lose each other's effect; a payment can be taken by another request's method.
* `StaleOnlyByRace`: a reader between the invalidation and the commit of a
  checkout, or between its own load and store, leaves the old book in the cache
  until its TTL ends it (`StaleEnds`).
* `EveryEventHandled`, `OrphansAreLosses`: a crash after the claim leaves an event
  `IN_FLIGHT`, a lost batch stays pending; five failures give an event up; without
  a subscriber, or if its one attempt to make the group failed, nothing is
  handled at all.
* `OncePerProcess`: a lease that overran, an operation that raised after its
  effect, another replica or a restart let a retry execute again.
* `ReplayIsGenuine`: a replay is what a request with the key was answered, which
  may be a refusal: a payment that was refused once is refused to every retry
  with its key until the record expires.
* `OvershootBounded`: in memory two threads can pass the borrow limit. A drop
  whose checkout fails has lost its request.
* `UrgentFirst`, `OneQueuePerThread`: a drop that comes into the comparisons of
  another can pass over a more urgent request, or make the other one's `heappop`
  raise and lose the request it had taken; a queue made twice leaves the
  requests of the first unserved.
* `OpenTransfersMove`: two runs of the rebalancer, or a run and a person, can move
  one copy twice; the second of two confirmations of one transfer can end the
  next transfer of the copy, which stays open for a copy at rest.
* `BackpressureBounded`: runs at the same time share no cap, and the transfers
  people ask for have none.
* `SuggestedByName`: a former title is offered instead of the last one when it
  lies below the same prefix and its rating was as high, since `insert` never
  removes a phrase.
* `SearchFollowsCatalog`: two threads writing one book mix their words; after a
  restart nothing is found; on PostgreSQL a search for available books finds
  digital books only.
* `CountMatchesState` holds although a success that was admitted before a trip
  closes an open breaker without a probe.

## Proofs

All theorems are for arbitrary constants satisfying the modules' assumptions:
what kind a constant is, which sets are disjoint, that `None` is none of the
values it is compared with, and a few that say a little more: a cache has room
for an entry (`CacheAssumption`), a profile has a year and an exam date or none,
there are finitely many threads and at least one branch (`MemoryAssumption`);
there are finitely many branches and requests, at least one user, and every copy
starts at a branch (`RebalancerAssumption`); a rating is a number from 1 to 5 and
the limits are naturals (`CatalogAssumption`). Bounds like the number of loans or faults are arbitrary
naturals, so the theorems do not depend on them.

An invariant of interest is seldom inductive. Each module strengthens it by
what a request, thread or relay under way has in its hands, and why that still
fits the shared state.

* **`CirculationProofs`.** `TypeCorrect` rests on `TypeInv` = `TypeOK` and
  `ArgsOK`: a request inside its transaction has a copy, a user and a copy
  object, and one about to append finds a deque.
  * `ExactlyOneCheckout` and `RowMatchesEvents` rest on `CheckoutInv`, which adds
    `Holding` (a request inside its transaction holds the lock of its copy),
    `CopyObjOK` (the object it works on was read under that lock, so the row
    still says what the object was made from: available or reserved for a
    checkout, issued to the recorded user for a return) and `Closed` (a copy
    without a borrower has a return after each of its checkouts). The last is
    what `NoDoubleCheckout` needs at a checkout, and `Holding` is why no other
    request can have committed in between.
  * `CirculationImplementsLedger` is the refinement of `LoanLedger`: under
    `CheckoutInv` a commit of a checkout is `Lend`, a commit of a return is
    `TakeBack`, and every other step leaves rows and events alone.
  * `CopiesHeldForReserver` and `EntriesAssignedOnce` rest on `WaitInv`. An entry
    taken off the queue is no longer pending and is either carried by one return
    or named by one committed event (`TakenOnce`, with `Unassigned` and `Promised`
    about requests that carry none and entries that are accepted); a return that
    carries an entry has reserved its copy object for the user of that entry, and
    so is the row as long as that return's event is the last one of the copy
    (`PutAside`).
  * `ReservationsKept` rests on `KeptInv`: a pending entry is in the deque or in
    `raced`, and while a request is about to store a new deque every pending
    entry of the title is in `raced` (`Exposed`), so that the store loses no other;
    an assigned entry is in a return's hands, in an event, or with a return that
    failed.
  * `LimitHolds` rests on `LimitInv`: from the test of the limit to its commit a
    checkout holds the user's row lock, and until a return of the user commits
    the list in the row is the set of copies issued to the user.
* **`TransfersProofs`.** `LoansAreKept`, `TransitsAreTracked` and the action
  property `TransitsEndAtTarget` rest on `TransfersInv`. For a copy nobody
  overtook or registered again, the object a request is about to save is the *current* row with the
  change of that request applied (`MoveOK`, `ArriveOK`, `AddOK`), and the columns
  its UPDATE will set are those in which the two differ (`DirtyOK`): so a commit
  applies exactly that change (`CommitRow`, `CommitEffect`). `Tracked` says the
  same of the transfers in memory: while a copy stands still, its open transfers
  are those still to be saved; while it travels there is one, or none once an
  arrival has closed it and has still to save the copy.
* **`MemoryLibraryProofs`.** `ServedOnce` rests on `RequestInv` (a request number
  is in one queue or with one thread). `MostUrgentFirst` is an action property: it
  needs that a pop from a list nobody disturbed takes one that precedes every
  other, and that the weights of the code put an exam in three days before one
  in more than a week. `QueuesMade` rests on `QueueInv`: the queues and the threads
  about to make one are together no more than the threads that have asked.
  `LoansAndCopiesAgree` rests on `ThreadInv` (a thread in its critical section
  holds the mutex of its copy) and `ShelfInv` (a copy halfway through an issue or
  a return is in nobody's loans). `OvershootIsBounded` is inductive on top of
  these, since `OvershootBounded` counts the checkouts that have passed the test;
  it counts with the theorems about finite sets.
* **`BillingProofs`.** `Balances` rests on `AccountInv`: as long as no requests
  overlap, the object of a request is the account with its own charge or payment
  applied, and the columns to be written are those that differ. `MethodsAsked`
  rests on `MethodInv`: the shared strategy is that of the payment or of one that
  set it since. `FinePolicies` is an action property about the strategies
  themselves: the tiers in closed form (`TieredAmount`) give the price of one more
  day, and the multipliers of the default policy are bounded and grow
  (`Multipliers`, `FineGrows`), for every queue, rating up to 5 and number of late
  returns, not only the ones at which the run looks.
* **`RebalancerProofs`.** `PlansAreSparing`, an action property, is about the loop
  that fills a plan. A plan consists of candidates, of different copies, within
  the cap: that the loop keeps this at each of its steps is an induction over
  the number of candidates, done by its least counterexample (`LeastNatural`,
  `FillGood`). As every candidate for a title at a branch offers the same, lowest
  copy and only branches with two may spare one, no branch is stripped.
  `Backpressure` rests on `LoadBounded`: the transfers under way to a branch *and*
  those planned are together at most the cap times the runners. A new plan may
  raise this load only as far as the cap less what is under way allows, next to
  what the other runners plan, at most the cap each (`RunnersCapped`);
  filing moves an item from the second kind to the first. What people ask for
  is counted by neither. `TransfersMove` rests on `RebalancerInv`: for a copy that
  nothing raced, a request that has started its transfer and not yet filed it is
  the only one, the copy travels to that item's destination, and no open
  transfer of it is still moving; a confirmation about to free it is of the one
  transfer that moves.
* **`CatalogProofs`.** `SearchIsCurrent` and `NamesAreSuggested` rest on
  `CatalogInv`, which follows one book that no two threads wrote at once. At rest
  it is `Settled`: the index has its last text or nothing, its postings are the
  words the index thinks it has (`Matched`), its object is the repository's, and
  the trie has its names. While a thread writes it, `Written` says for each step
  what is done: the database is ahead of the index until the words are added,
  and the postings of *all* former words are gone once they are discarded,
  because `Matched` held before. The limits are met by showing that a book left
  out of an answer means that the answer is full; `SettledMatches` says that a
  settled book matches the words of its last text and no others. For the trie
  the names of the last text are there with a weight no lower than its own
  (`HasNames`, since `insert` keeps the higher of two weights), weights are bounded
  (`TrieOK`), and so the subtree has a best entry of the book (`BestExists`, by the
  greatest of a bounded set of naturals): of its last text, or of a former one
  that weighs as much.
* **`BookCacheProofs`.** `CacheWithinCapacity` and `StalenessHasACause` rest on
  `CacheInv`: the LRU order lists each cached key once (`StoreOK`), and what is
  cached or loaded is the committed version unless one of the recorded races
  has happened (`Fresh`, `RequestsOK`).
* **`ReliabilityProofs`.** Four modules. About the relay alone: `ClaimsAreExclusive`,
  `NoFalsePublication`, `DuplicatesBounded`, from `OutboxInv`, which relates each
  relay's step to the event in its hands (an event about to be marked has been
  delivered) and each event's deliveries to its counted failures.
  `DeliveryImplementsRelay` carries them over to the composition with the event
  bus. `HandlingsCounted` and `OrphansBounded` rest on `BusInv`: inboxes hold
  consecutive ids that the group has given out, and share none (`InboxOK`); what
  is beyond the last id given out, or still to be handled in an inbox, has not
  been handled (`HandledOK`); the entries of an event are as many as its
  deliveries (`EntriesCounted`).
  * `CircuitBreaker`: `CountDecides` and `OpenFailsFast`. The two properties are
    inductive with the types and `ProbeInTime` (a half-open breaker has timed
    out).
  * `Idempotency`: `OnceInAProcess` and `ReplaysAreGenuine`. The strengthening
    says that, as long as no lease overran and nothing failed late, at most one
    request per process and key is past `set_in_progress`, its live entry is in
    the store, and the effects recorded in the window are those of the entry's
    request. `ReplaysAreGenuine` rests on what is stored being the result of a
    request with that key, and on that result being true of it: COMPLETED only
    if it took effect, FAILED only if it did not.

Model-checked only:

* liveness (`EveryRequestAnswered`, `Recovers`, `EveryEventHandled`, `KeyReleased`,
  `StaleEnds`), which is out of the prover's reach;
* `WalksAreSound` of `CatalogWalks`: the walks are recursive operators, which cost
  a module its SMT backend, and what they return is an induction over the graph.

`NoDoubleLoan` is the property that the run `unlocked_writer` refutes.

## Not modelled

* The risk model and the recommendations compute floating-point scores and a
  trained classifier; nothing modelled reads them.
* Authentication is library calls on stateless tokens; notifications, audit log
  and metrics are output; configuration, wiring and seed data build objects.
  What the wiring decides (which store, how many processes, which lock, what a
  start leaves empty) is in the modules.
* The Redis branch of the lock manager and the optimistic versions: beside
  PostgreSQL the container builds a lock manager on Redis that no repository
  uses. The Redis branch of the idempotency store is built by nothing.
* `mark_lost`, `mark_repair`, `restore_available`, `delete_book`, `remove_book` and
  read access to e-books are called by nothing.
* Relevance scores of search, queries of several words, category and author
  filters, the page cache of results. The cuts to 20 results and 8 suggestions
  are the limits of `Catalog`; the cut of the recommendations (`top_k`) is left
  out.

## Plan

All safety properties and action properties that the passing runs check are
theorems, except `WalksAreSound`. What is left to do:

1. `CatalogWalks`: state the two walks as step relations on queue and path, so that
   the soundness of a step (every new book is a neighbour of the last one) can be
   proved without an induction over the graph.
2. `Circulation`: `ImplementsLedger` relates safety only; the fairness of
   `Step(r)` has no counterpart in `LoanLedger`.
