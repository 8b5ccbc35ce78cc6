------------------------------ MODULE BookCache ------------------------------
(***************************************************************************)
(* The cache of book details (key book:<isbn>, TTL 600 s) between the      *)
(* database and GET /books/{isbn}: storage/cache.py, an LRU dictionary,    *)
(* and storage/redis_cache.py behind its circuit breaker.  get_or_compute  *)
(* looks up, loads from the database and stores in three steps with no     *)
(* lock across them.  Writers invalidate: the catalog after its commit,    *)
(* the circulation desk inside the transaction, before its commit.         *)
(*                                                                         *)
(* A book is its version: 0 while it is not registered, one more with      *)
(* every committed change of the book or its copies.  The keys search:*    *)
(* that register_book also invalidates are written by nothing.             *)
(***************************************************************************)
EXTENDS Naturals, Sequences, SequencesExt, FiniteSets

CONSTANTS
    Books,
    Readers,       \* GET /books/{isbn}
    Editors,       \* register_book, add_physical_copy
    Desks,         \* checkouts and returns
    Backends,      \* "memory", "redis"
    Capacity,      \* capacity of the in-memory cache
    MaxVersion,    \* bound: committed changes of a book
    None

ASSUME CacheAssumption ==
    /\ Capacity \in Nat \ {0} /\ MaxVersion \in Nat
    /\ Backends \subseteq {"memory", "redis"}
    /\ Editors \cap Desks = {} /\ None \notin 1 .. MaxVersion

Writers == Editors \cup Desks

VARIABLES
    backend,
    up,         \* Redis answers
    open,       \* the circuit breaker keeps get and set away from Redis
    db,         \* committed version of a book
    entry,      \* cached version, or None
    expired,    \* the entry has outlived its TTL
    order,      \* in-memory cache: keys, least recently used first
    rpc, rkey, loaded,    \* readers
    wpc, wkey,            \* writers
    raced       \* history: books for which a reader came between the
                \* invalidation and the commit, or the reverse, or whose
                \* invalidation did not reach Redis or was never sent

redis == <<backend, up, open>>
store == <<entry, expired, order>>
reading == <<rpc, rkey, loaded>>
writing == <<wpc, wkey>>
vars == <<redis, db, store, reading, writing, raced>>

Init ==
    /\ backend \in Backends /\ up = TRUE /\ open = FALSE
    /\ db = [b \in Books |-> 0]
    /\ entry = [b \in Books |-> None]
    /\ expired = [b \in Books |-> FALSE]
    /\ order = <<>>
    /\ rpc = [r \in Readers |-> "idle"]
    /\ rkey = [r \in Readers |-> None]
    /\ loaded = [r \in Readers |-> 0]
    /\ wpc = [w \in Writers |-> "idle"]
    /\ wkey = [w \in Writers |-> None]
    /\ raced = {}

Reachable == backend = "memory" \/ (up /\ ~ open)
Served(b) == entry[b] # None /\ ~ expired[b]

(* A key is in the dictionary once.                                        *)
Without(b) ==
    LET at == {i \in DOMAIN order : order[i] = b}
    IN  IF at = {} THEN order ELSE RemoveAt(order, CHOOSE i \in at : TRUE)
Touch(b) == Append(Without(b), b)

(***************************************************************************)
(* get, and get_or_compute of a reader.                                    *)
(***************************************************************************)
Hit(r, b) ==
    /\ rpc[r] = "idle" /\ Reachable /\ Served(b)
    /\ order' = IF backend = "memory" THEN Touch(b) ELSE order
    /\ UNCHANGED <<redis, db, entry, expired, reading, writing, raced>>

(* A miss drops an expired entry; a Redis out of reach is a miss.          *)
Miss(r, b) ==
    /\ rpc[r] = "idle" /\ ~ (Reachable /\ Served(b))
    /\ IF Reachable
       THEN /\ entry' = [entry EXCEPT ![b] = None]
            /\ expired' = [expired EXCEPT ![b] = FALSE]
            /\ order' = Without(b)
       ELSE UNCHANGED store
    /\ rpc' = [rpc EXCEPT ![r] = "load"]
    /\ rkey' = [rkey EXCEPT ![r] = b]
    /\ UNCHANGED <<redis, db, loaded, writing, raced>>

(* The loader reads the database; None is answered and not stored.         *)
Load(r) ==
    /\ rpc[r] = "load"
    /\ loaded' = [loaded EXCEPT ![r] = db[rkey[r]]]
    /\ rpc' = [rpc EXCEPT ![r] = IF db[rkey[r]] = 0 THEN "idle" ELSE "store"]
    /\ rkey' = [rkey EXCEPT ![r] = IF db[@] = 0 THEN None ELSE @]
    /\ UNCHANGED <<redis, db, store, writing, raced>>

(* Fault: a full cache takes one more.                                     *)
EvictNothing(b) == {}

(* The least recently used key makes room for a new one.                   *)
Evicted(b) ==
    IF backend = "memory" /\ entry[b] = None /\ Len(order) >= Capacity
    THEN {Head(order)} ELSE {}

Stored(b, version) ==
    /\ entry' = [k \in Books |-> IF k = b THEN version
                                 ELSE IF k \in Evicted(b) THEN None ELSE entry[k]]
    /\ expired' = [k \in Books |->
                      IF k = b \/ k \in Evicted(b) THEN FALSE ELSE expired[k]]
    /\ order' = IF backend # "memory" THEN order
                ELSE IF Evicted(b) = {} THEN Touch(b) ELSE Append(Tail(order), b)

Store(r) ==
    /\ rpc[r] = "store"
    /\ IF Reachable THEN Stored(rkey[r], loaded[r]) ELSE UNCHANGED store
    /\ rpc' = [rpc EXCEPT ![r] = "idle"]
    /\ rkey' = [rkey EXCEPT ![r] = None]
    /\ loaded' = [loaded EXCEPT ![r] = 0]
    /\ UNCHANGED <<redis, db, writing, raced>>

(***************************************************************************)
(* Writers.  invalidate goes to Redis past the breaker; an error is        *)
(* swallowed.                                                              *)
(***************************************************************************)
Invalidate(b) ==
    IF backend = "memory" \/ up
    THEN /\ entry' = [entry EXCEPT ![b] = None]
         /\ expired' = [expired EXCEPT ![b] = FALSE]
         /\ order' = Without(b)
         /\ UNCHANGED raced
    ELSE raced' = raced \cup {b} /\ UNCHANGED store

(* A reader of the book holds a version that is about to be superseded.    *)
Loading(b) == \E r \in Readers : rpc[r] = "store" /\ rkey[r] = b

(* A change is visible, then invalidated: the catalog's commits, and every *)
(* change of an object of the in-memory repositories.                      *)
ChangeCommit(w, b) ==
    /\ wpc[w] = "idle" /\ db[b] < MaxVersion
    /\ w \in Editors \/ (backend = "memory" /\ db[b] > 0)
    /\ db' = [db EXCEPT ![b] = @ + 1]
    /\ raced' = IF Loading(b) THEN raced \cup {b} ELSE raced
    /\ wpc' = [wpc EXCEPT ![w] = "invalidate"]
    /\ wkey' = [wkey EXCEPT ![w] = b]
    /\ UNCHANGED <<redis, store, reading>>

(* Fault: the writer never tells the cache.                                *)
ChangeForgotten(w) ==
    /\ wpc[w] = "invalidate"
    /\ wpc' = [wpc EXCEPT ![w] = "idle"]
    /\ wkey' = [wkey EXCEPT ![w] = None]
    /\ UNCHANGED <<redis, db, store, reading, raced>>

ChangeInvalidate(w) ==
    /\ wpc[w] = "invalidate"
    /\ Invalidate(wkey[w])
    /\ wpc' = [wpc EXCEPT ![w] = "idle"]
    /\ wkey' = [wkey EXCEPT ![w] = None]
    /\ UNCHANGED <<redis, db, reading>>

(* The desk's transaction on PostgreSQL: invalidated, then committed.      *)
DeskInvalidate(w, b) ==
    /\ backend = "redis" /\ wpc[w] = "idle" /\ 0 < db[b] /\ db[b] < MaxVersion
    /\ Invalidate(b)
    /\ wpc' = [wpc EXCEPT ![w] = "commit"]
    /\ wkey' = [wkey EXCEPT ![w] = b]
    /\ UNCHANGED <<redis, db, reading>>

DeskCommit(w) ==
    LET b == wkey[w]
    IN  /\ wpc[w] = "commit" /\ db[b] < MaxVersion
        /\ db' = [db EXCEPT ![b] = @ + 1]
        /\ raced' = IF Loading(b) \/ entry[b] # None THEN raced \cup {b} ELSE raced
        /\ wpc' = [wpc EXCEPT ![w] = "idle"]
        /\ wkey' = [wkey EXCEPT ![w] = None]
        /\ UNCHANGED <<redis, store, reading>>

DeskRollback(w) ==
    /\ wpc[w] = "commit"
    /\ wpc' = [wpc EXCEPT ![w] = "idle"]
    /\ wkey' = [wkey EXCEPT ![w] = None]
    /\ UNCHANGED <<redis, db, store, reading, raced>>

(* A transfer (Transfers) changes a copy and tells the cache nothing.      *)
MoveCopy(b) ==
    /\ 0 < db[b] /\ db[b] < MaxVersion
    /\ db' = [db EXCEPT ![b] = @ + 1]
    /\ raced' = raced \cup {b}
    /\ UNCHANGED <<redis, store, reading, writing>>

(***************************************************************************)
(* The TTL; Redis, and the breaker, which opens on failures and closes on  *)
(* a success (CircuitBreaker).                                             *)
(***************************************************************************)
(* Fault: setex without an expiry.                                         *)
ExpireNever(b) == FALSE /\ UNCHANGED vars

Expire(b) ==
    /\ Served(b)
    /\ expired' = [expired EXCEPT ![b] = TRUE]
    /\ UNCHANGED <<redis, db, entry, order, reading, writing, raced>>

Outage ==
    /\ backend = "redis"
    /\ \/ up' = ~ up /\ UNCHANGED open
       \/ open' = ~ up /\ open' # open /\ UNCHANGED up
    /\ UNCHANGED <<backend, db, store, reading, writing, raced>>

Next ==
    \/ \E r \in Readers :
          \/ \E b \in Books : Hit(r, b) \/ Miss(r, b)
          \/ Load(r) \/ Store(r)
    \/ \E w \in Writers : ChangeInvalidate(w) \/ \E b \in Books : ChangeCommit(w, b)
    \/ \E b \in Books : MoveCopy(b)
    \/ \E w \in Desks :
          DeskCommit(w) \/ DeskRollback(w) \/ \E b \in Books : DeskInvalidate(w, b)
    \/ \E b \in Books : Expire(b)
    \/ Outage

Spec == Init /\ [][Next]_vars

(* Time passes, and a reader that has missed runs to its end.              *)
FairSpec ==
    /\ Spec
    /\ \A b \in Books : WF_vars(Expire(b))
    /\ \A r \in Readers : WF_vars(Load(r) \/ Store(r))
-----------------------------------------------------------------------------
(* Every variable keeps the shape the code gives it, and the in-memory     *)
(* cache its capacity.                                                     *)
TypeOK ==
    /\ backend \in Backends /\ up \in BOOLEAN /\ open \in BOOLEAN
    /\ db \in [Books -> 0 .. MaxVersion]
    /\ entry \in [Books -> (1 .. MaxVersion) \cup {None}]
    /\ expired \in [Books -> BOOLEAN]
    /\ order \in Seq(Books)
    /\ backend = "memory" =>
          /\ Len(order) <= Capacity
          /\ ToSet(order) = {b \in Books : entry[b] # None}
    /\ rpc \in [Readers -> {"idle", "load", "store"}]
    /\ rkey \in [Readers -> Books \cup {None}]
    /\ loaded \in [Readers -> 0 .. MaxVersion]
    /\ wpc \in [Writers -> {"idle", "invalidate", "commit"}]
    /\ wkey \in [Writers -> Books \cup {None}]
    /\ raced \subseteq Books

Editing(b) == \E w \in Writers : wpc[w] = "invalidate" /\ wkey[w] = b

(* The cache answers with the committed book, for every interleaving of    *)
(* lookups, loads and writers, with these exceptions: while the writer has *)
(* still to invalidate, and after a reader that loaded on the other side   *)
(* of the commit, an invalidation that Redis did not get, or a transfer.   *)
StaleOnlyByRace ==
    \A b \in Books \ raced :
        Served(b) => entry[b] = db[b] \/ Editing(b)

(* What a race leaves in the cache does not stay: once no change of the    *)
(* book follows, its TTL ends it and the cache tells the truth for good.   *)
StaleEnds ==
    \A b \in Books : \A v \in 1 .. MaxVersion :
        <>[](db[b] = v) => <>[](Served(b) => entry[b] = v)
=============================================================================
