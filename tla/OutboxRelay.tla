----------------------------- MODULE OutboxRelay -----------------------------
(***************************************************************************)
(* storage/outbox.py: the outbox table and the relay threads (one per API  *)
(* process) that claim pending rows, publish them to the event bus and     *)
(* mark them.  A claim, a publication and a mark are three separate        *)
(* effects on two systems; the database, the broker and the process may    *)
(* fail between any two of them.                                           *)
(***************************************************************************)
EXTENDS Naturals, FiniteSets

CONSTANTS
    Events,        \* event ids
    Relays,        \* relay threads
    Limit,         \* limit=50 of fetch_pending
    MaxRetry,      \* the 5 of mark_failed
    MaxCrashes,    \* bound: relay processes that die
    MaxDbErrors    \* bound: mark_* calls that raise

ASSUME OutboxAssumption ==
    /\ Limit \in Nat \ {0} /\ MaxRetry \in Nat \ {0}
    /\ MaxCrashes \in Nat /\ MaxDbErrors \in Nat

VARIABLES
    status,       \* status column; "NONE" before the row is inserted
    retry,        \* retry_count column
    batch,        \* events a relay has fetched and not finished with
    current,      \* the event it is working on, as a set of at most one
    step,         \* what it does next with that event
    delivered,    \* how often the broker has appended an event
    up,           \* the broker is reachable
    crashes, dbErrors

table == <<status, retry>>
bounds == <<crashes, dbErrors>>
relayVars == <<table, batch, current, step, delivered, up, bounds>>

RelayInit ==
    /\ status = [e \in Events |-> "NONE"]
    /\ retry = [e \in Events |-> 0]
    /\ batch = [w \in Relays |-> {}]
    /\ current = [w \in Relays |-> {}]
    /\ step = [w \in Relays |-> "idle"]
    /\ delivered = [e \in Events |-> 0]
    /\ up = TRUE
    /\ crashes = 0 /\ dbErrors = 0

Pending == {e \in Events : status[e] = "PENDING"}

(* What the query may return: at most Limit pending rows, in no order, and *)
(* not the ones another relay is about to claim (SKIP LOCKED).             *)
Fetchable(S) == S # {} /\ S \subseteq Pending /\ Cardinality(S) <= Limit

(* save_event: the row becomes visible when its transaction commits.       *)
SaveEvent(e) ==
    /\ status[e] = "NONE"
    /\ status' = [status EXCEPT ![e] = "PENDING"]
    /\ UNCHANGED <<retry, batch, current, step, delivered, up, bounds>>

(* Fault: fetch_pending with claim=False.                                  *)
FetchUnclaimed(w, S) ==
    /\ step[w] = "idle"
    /\ Fetchable(S)
    /\ batch' = [batch EXCEPT ![w] = S]
    /\ step' = [step EXCEPT ![w] = "next"]
    /\ UNCHANGED <<table, current, delivered, up, bounds>>

(* fetch_pending(limit, claim=True): SELECT ... FOR UPDATE SKIP LOCKED,    *)
(* mark IN_FLIGHT, commit.                                                 *)
Fetch(w, S) ==
    /\ step[w] = "idle"
    /\ Fetchable(S)
    /\ status' = [e \in Events |-> IF e \in S THEN "IN_FLIGHT" ELSE status[e]]
    /\ batch' = [batch EXCEPT ![w] = S]
    /\ step' = [step EXCEPT ![w] = "next"]
    /\ UNCHANGED <<retry, current, delivered, up, bounds>>

(* The loop of publish_pending_once turns to its next event ...            *)
Take(w, e) ==
    /\ step[w] = "next" /\ e \in batch[w]
    /\ batch' = [batch EXCEPT ![w] = @ \ {e}]
    /\ current' = [current EXCEPT ![w] = {e}]
    /\ step' = [step EXCEPT ![w] = "publish"]
    /\ UNCHANGED <<table, delivered, up, bounds>>

(* ... or is over.                                                         *)
Finish(w) ==
    /\ step[w] = "next" /\ batch[w] = {}
    /\ step' = [step EXCEPT ![w] = "idle"]
    /\ UNCHANGED <<table, batch, current, delivered, up, bounds>>

(* event_bus.publish returns.                                              *)
Publish(w, e) ==
    /\ step[w] = "publish" /\ e \in current[w] /\ up
    /\ delivered' = [delivered EXCEPT ![e] = @ + 1]
    /\ step' = [step EXCEPT ![w] = "mark"]
    /\ UNCHANGED <<table, batch, current, up, bounds>>

(* Fault: an error of the broker is swallowed.                             *)
PublishErrorIgnored(w, e) ==
    /\ step[w] = "publish" /\ e \in current[w] /\ ~ up
    /\ step' = [step EXCEPT ![w] = "mark"]
    /\ UNCHANGED <<table, batch, current, delivered, up, bounds>>

(* event_bus.publish raises; the entry may have been appended all the same *)
(* when it is the answer that got lost.                                    *)
PublishError(w, e) ==
    /\ step[w] = "publish" /\ e \in current[w] /\ ~ up
    /\ delivered' \in {delivered, [delivered EXCEPT ![e] = @ + 1]}
    /\ step' = [step EXCEPT ![w] = "mark_failed"]
    /\ UNCHANGED <<table, batch, current, up, bounds>>

MarkPublished(w, e) ==
    /\ step[w] = "mark" /\ e \in current[w]
    /\ status' = [status EXCEPT ![e] = "PUBLISHED"]
    /\ current' = [current EXCEPT ![w] = {}]
    /\ step' = [step EXCEPT ![w] = "next"]
    /\ UNCHANGED <<retry, batch, delivered, up, bounds>>

(* mark_published raises inside the try: the handler records a failure of  *)
(* an event that was published.                                            *)
MarkPublishedError(w) ==
    /\ step[w] = "mark" /\ dbErrors < MaxDbErrors
    /\ dbErrors' = dbErrors + 1
    /\ step' = [step EXCEPT ![w] = "mark_failed"]
    /\ UNCHANGED <<table, batch, current, delivered, up, crashes>>

(* Fault: the event goes back to PENDING and the failure is not counted.   *)
MarkFailedUncounted(w, e) ==
    /\ step[w] = "mark_failed" /\ e \in current[w]
    /\ delivered[e] <= MaxRetry
    /\ status' = [status EXCEPT ![e] = "PENDING"]
    /\ current' = [current EXCEPT ![w] = {}]
    /\ step' = [step EXCEPT ![w] = "next"]
    /\ UNCHANGED <<retry, batch, delivered, up, bounds>>

MarkFailed(w, e) ==
    /\ step[w] = "mark_failed" /\ e \in current[w]
    /\ retry' = [retry EXCEPT ![e] = @ + 1]
    /\ status' = [status EXCEPT ![e] = IF retry[e] + 1 >= MaxRetry THEN "FAILED"
                                                                   ELSE "PENDING"]
    /\ current' = [current EXCEPT ![w] = {}]
    /\ step' = [step EXCEPT ![w] = "next"]
    /\ UNCHANGED <<batch, delivered, up, bounds>>

(* The relay forgets what it had claimed.                                  *)
Forget(w) ==
    /\ batch' = [batch EXCEPT ![w] = {}]
    /\ current' = [current EXCEPT ![w] = {}]
    /\ step' = [step EXCEPT ![w] = "idle"]

(* mark_failed raises: the exception leaves publish_pending_once and       *)
(* _relay_loop starts over with a new batch.                               *)
MarkFailedError(w) ==
    /\ step[w] = "mark_failed" /\ dbErrors < MaxDbErrors
    /\ dbErrors' = dbErrors + 1
    /\ Forget(w)
    /\ UNCHANGED <<table, delivered, up, crashes>>

(* The process dies, and another is started.                               *)
Crash(w) ==
    /\ step[w] # "idle" /\ crashes < MaxCrashes
    /\ crashes' = crashes + 1
    /\ Forget(w)
    /\ UNCHANGED <<table, delivered, up, dbErrors>>

(* The broker goes away or comes back.                                     *)
Broker ==
    /\ up' = ~ up
    /\ UNCHANGED <<table, batch, current, step, delivered, bounds>>

Work(w) ==
    \/ \E S \in SUBSET Events : Fetch(w, S)
    \/ \E e \in Events :
          \/ Take(w, e) \/ Publish(w, e) \/ PublishError(w, e)
          \/ MarkPublished(w, e) \/ MarkFailed(w, e)
    \/ Finish(w)

RelayNext ==
    \/ \E e \in Events : SaveEvent(e)
    \/ \E w \in Relays :
          Work(w) \/ MarkPublishedError(w) \/ MarkFailedError(w) \/ Crash(w)
    \/ Broker

RelaySpec == RelayInit /\ [][RelayNext]_relayVars

-----------------------------------------------------------------------------
(* Every variable keeps the shape the code gives it.                       *)
RelayTypeOK ==
    /\ status \in [Events -> {"NONE", "PENDING", "IN_FLIGHT", "PUBLISHED", "FAILED"}]
    /\ retry \in [Events -> Nat]
    /\ batch \in [Relays -> SUBSET Events]
    /\ current \in [Relays -> SUBSET Events]
    /\ step \in [Relays -> {"idle", "next", "publish", "mark", "mark_failed"}]
    /\ delivered \in [Events -> Nat]
    /\ up \in BOOLEAN
    /\ crashes \in Nat /\ dbErrors \in Nat

Owned(w) == batch[w] \cup current[w]

(* The claim works: an event is in the hands of one relay at most, and     *)
(* while it is, its row says IN_FLIGHT, so nobody else can fetch it.       *)
OneOwner ==
    /\ \A v, w \in Relays : v # w => Owned(v) \cap Owned(w) = {}
    /\ \A w \in Relays : \A e \in Owned(w) : status[e] = "IN_FLIGHT"

(* An event marked PUBLISHED has reached the broker.                       *)
PublishedWasDelivered ==
    \A e \in Events : status[e] = "PUBLISHED" => delivered[e] > 0

(* At-least-once is paid for: every delivery but one of an event has a     *)
(* failure counted in its row, so crashes and lost answers never deliver   *)
(* an event more than MaxRetry times.                                      *)
DuplicatesAreCounted ==
    \A e \in Events : delivered[e] <= retry[e] + 1 /\ delivered[e] <= MaxRetry
=============================================================================
